---- MODULE Spec2Model ----
(***************************************************************************)
(* A model of the similarity-and-clustering engine of similarity-checker.  *)
(*                                                                         *)
(*   src/src/similarity.rs        calculate_similarity and its metrics     *)
(*   src/src-tauri/src/grouper.rs group_files                              *)
(*                                                                         *)
(* File names are sequences of one-character strings.  A score (an f64 in  *)
(* the source) is kept as an exact fraction <<num, den>> in lowest terms;  *)
(* indices are 1-based here and 0-based in the source.                     *)
(***************************************************************************)
EXTENDS Integers, Sequences, FiniteSets, Bags, TLC

(***************************************************************************)
(* Bounds of the model.                                                    *)
(***************************************************************************)
MaxFiles == 3
MaxMinGroupSize == 3

\* The names an input list is drawn from.
NamePool ==
    { <<"A", "_", "b">>,
      <<"c", ".", "d">>,
      <<"b", "c", ".", "d">>,
      <<"c", "_", "a">> }

\* Threshold percentages handed to group_files (a u8 in the source).
Thresholds == {30, 50}

\* The algorithms of cli.rs that the model computes.
Algorithms == {"Levenshtein", "Token", "Substring"}

(***************************************************************************)
(* Exact fractions.                                                        *)
(***************************************************************************)
RECURSIVE GCD(_, _)
GCD(a, b) == IF b = 0 THEN a ELSE GCD(b, a % b)

Frac(n, d) == LET g == GCD(n, d) IN IF g = 0 THEN <<0, 1>> ELSE <<n \div g, d \div g>>

FracAdd(x, y) == Frac(x[1] * y[2] + y[1] * x[2], x[2] * y[2])

FracSub(x, y) == Frac(x[1] * y[2] - y[1] * x[2], x[2] * y[2])

FracDivInt(x, k) == Frac(x[1], x[2] * k)

\* A faulty comparison: > in place of >=.
FracGEStrict(x, y) == x[1] * y[2] > y[1] * x[2]

FracGE(x, y) == x[1] * y[2] >= y[1] * x[2]

FracGT(x, y) == x[1] * y[2] > y[1] * x[2]

One == <<1, 1>>

Zero == <<0, 1>>

Max(a, b) == IF a >= b THEN a ELSE b

Min(a, b) == IF a <= b THEN a ELSE b

(***************************************************************************)
(* Characters and strings.                                                 *)
(***************************************************************************)
\* char::is_alphanumeric on the characters of the pool.
is_alphanumeric(c) == c \notin {"_", ".", "-", " "}

\* char lower-casing on the characters of the pool.
lower_char(c) == IF c = "A" THEN "a" ELSE c

to_lowercase(s) == [p \in 1..Len(s) |-> lower_char(s[p])]

RECURSIVE FilterAlnum(_)
FilterAlnum(s) ==
    IF s = <<>> THEN <<>>
    ELSE IF is_alphanumeric(Head(s)) THEN <<Head(s)>> \o FilterAlnum(Tail(s))
    ELSE FilterAlnum(Tail(s))

(***************************************************************************)
(* similarity.rs: the metrics.                                             *)
(***************************************************************************)
\* One row of the edit-distance table: prev is the row of the prefix of s1
\* without its last character c, acc the part of the new row built so far.
RECURSIVE LevRow(_, _, _, _)
LevRow(prev, c, s2, acc) ==
    LET j == Len(acc) IN
    IF j > Len(s2) THEN acc
    ELSE LET cost == IF c = s2[j] THEN 0 ELSE 1
             cell == Min(Min(acc[j] + 1, prev[j + 1] + 1), prev[j] + cost)
         IN LevRow(prev, c, s2, Append(acc, cell))

\* The rows for the characters of s1 from the i-th on: prev is the row of the
\* first i - 1 characters, whose first cell is i - 1.
RECURSIVE LevRows(_, _, _, _)
LevRows(s1, s2, i, prev) ==
    IF prev[1] >= Len(s1) THEN prev[Len(s2) + 1]
    ELSE LevRows(s1, s2, i + 1, LevRow(prev, s1[i], s2, <<i>>))

\* strsim::levenshtein: the edit distance of two strings.
levenshtein(s1, s2) == LevRows(s1, s2, 1, [j \in 1..(Len(s2) + 1) |-> j - 1])

levenshtein_similarity(s1, s2) ==
    LET distance == levenshtein(s1, s2)
        max_len == Max(Len(s1), Len(s2))
    IN IF max_len = 0 THEN One ELSE FracSub(One, Frac(distance, max_len))

\* tokenize: the maximal runs of alphanumeric characters, in order.
RECURSIVE TokenizeFrom(_, _, _)
TokenizeFrom(s, tokens, current_token) ==
    IF s = <<>> THEN
        IF current_token # <<>> THEN Append(tokens, current_token) ELSE tokens
    ELSE IF is_alphanumeric(Head(s)) THEN
        TokenizeFrom(Tail(s), tokens, Append(current_token, Head(s)))
    ELSE IF current_token # <<>> THEN
        TokenizeFrom(Tail(s), Append(tokens, current_token), <<>>)
    ELSE TokenizeFrom(Tail(s), tokens, current_token)

tokenize(s) == TokenizeFrom(s, <<>>, <<>>)

SeqToSet(q) == {q[p] : p \in 1..Len(q)}

token_similarity(s1, s2) ==
    LET tokens1 == tokenize(s1)
        tokens2 == tokenize(s2)
        set1 == SeqToSet(tokens1)
        set2 == SeqToSet(tokens2)
        intersection == Cardinality(set1 \cap set2)
        union == Cardinality(set1 \cup set2)
    IN IF tokens1 = <<>> /\ tokens2 = <<>> THEN One
       ELSE IF tokens1 = <<>> \/ tokens2 = <<>> THEN Zero
       ELSE IF union = 0 THEN One
       ELSE Frac(intersection, union)

\* str::rfind('.'): the position of the last dot, 0 when there is none.
RECURSIVE rfind_dot(_, _)
rfind_dot(s, p) ==
    IF p = 0 THEN 0 ELSE IF s[p] = "." THEN p ELSE rfind_dot(s, p - 1)

normalize_for_comparison(s) ==
    LET dot_pos == rfind_dot(s, Len(s))
        without_ext == IF dot_pos > 0 THEN SubSeq(s, 1, dot_pos - 1) ELSE s
    IN to_lowercase(FilterAlnum(without_ext))

\* str::contains: shorter occurs in longer as a contiguous run.
contains(longer, shorter) ==
    \E p \in 1..(Len(longer) - Len(shorter) + 1) :
        SubSeq(longer, p, p + Len(shorter) - 1) = shorter

substring_similarity(s1, s2) ==
    LET norm1 == normalize_for_comparison(s1)
        norm2 == normalize_for_comparison(s2)
        shorter == IF Len(norm1) <= Len(norm2) THEN norm1 ELSE norm2
        longer == IF Len(norm1) <= Len(norm2) THEN norm2 ELSE norm1
    IN IF norm1 = <<>> /\ norm2 = <<>> THEN One
       ELSE IF norm1 = <<>> \/ norm2 = <<>> THEN Zero
       ELSE IF contains(longer, shorter) THEN Frac(Len(shorter), Len(longer))
       ELSE Zero

calculate_similarity(s1, s2, alg, cs) ==
    LET t1 == IF cs THEN s1 ELSE to_lowercase(s1)
        t2 == IF cs THEN s2 ELSE to_lowercase(s2)
    IN CASE alg = "Levenshtein" -> levenshtein_similarity(t1, t2)
         [] alg = "Token" -> token_similarity(t1, t2)
         [] alg = "Substring" -> substring_similarity(t1, t2)

(***************************************************************************)
(* f64 arithmetic.                                                         *)
(*                                                                         *)
(* The composite metrics add and multiply f64 values, and the result       *)
(* depends on the rounding of each operation.  A non-negative f64 is       *)
(* [m, e], the value m * 2^e with m of exactly 53 bits (zero: m empty),    *)
(* and every operation rounds its exact result to the nearest such value,  *)
(* ties to the even mantissa.  A mantissa is a natural number written as   *)
(* the sequence of its digits in base Base, lowest digit first.            *)
(***************************************************************************)
Base == 32768

LimbBits == 15

MantissaBits == 53

Pow2(n) == 2 ^ n

RECURSIVE BigTrim(_)
BigTrim(x) ==
    IF x # <<>> /\ x[Len(x)] = 0 THEN BigTrim(SubSeq(x, 1, Len(x) - 1)) ELSE x

RECURSIVE BigFromInt(_)
BigFromInt(n) == IF n = 0 THEN <<>> ELSE <<n % Base>> \o BigFromInt(n \div Base)

Limb(x, p) == IF p <= Len(x) THEN x[p] ELSE 0

RECURSIVE BigAddFrom(_, _, _, _)
BigAddFrom(x, y, p, carry) ==
    IF p > Max(Len(x), Len(y)) THEN (IF carry = 0 THEN <<>> ELSE <<carry>>)
    ELSE LET t == Limb(x, p) + Limb(y, p) + carry
         IN <<t % Base>> \o BigAddFrom(x, y, p + 1, t \div Base)

BigAdd(x, y) == BigAddFrom(x, y, 1, 0)

\* x - y for x >= y.
RECURSIVE BigSubFrom(_, _, _, _)
BigSubFrom(x, y, p, borrow) ==
    IF p > Len(x) THEN <<>>
    ELSE LET t == Limb(x, p) - Limb(y, p) - borrow
         IN IF t < 0 THEN <<t + Base>> \o BigSubFrom(x, y, p + 1, 1)
            ELSE <<t>> \o BigSubFrom(x, y, p + 1, 0)

BigSub(x, y) == BigTrim(BigSubFrom(x, y, 1, 0))

\* x * k for a digit k.
RECURSIVE BigMulSmallFrom(_, _, _, _)
BigMulSmallFrom(x, k, p, carry) ==
    IF p > Len(x) THEN (IF carry = 0 THEN <<>> ELSE <<carry>>)
    ELSE LET t == x[p] * k + carry
         IN <<t % Base>> \o BigMulSmallFrom(x, k, p + 1, t \div Base)

BigMulSmall(x, k) == BigTrim(BigMulSmallFrom(x, k, 1, 0))

BigShiftLimbs(x, n) == IF x = <<>> THEN <<>> ELSE [p \in 1..n |-> 0] \o x

RECURSIVE BigMulFrom(_, _, _)
BigMulFrom(x, y, p) ==
    IF p > Len(y) THEN <<>>
    ELSE BigAdd(BigShiftLimbs(BigMulSmall(x, y[p]), p - 1), BigMulFrom(x, y, p + 1))

BigMul(x, y) == BigMulFrom(x, y, 1)

\* Quotient and remainder of x by a digit k > 0, from the highest digit down.
RECURSIVE BigDivSmallFrom(_, _, _, _, _)
BigDivSmallFrom(x, k, p, rem, acc) ==
    IF p = 0 THEN [q |-> BigTrim(acc), r |-> rem]
    ELSE LET t == rem * Base + x[p]
         IN BigDivSmallFrom(x, k, p - 1, t % k, <<t \div k>> \o acc)

BigDivSmall(x, k) == BigDivSmallFrom(x, k, Len(x), 0, <<>>)

\* -1, 0 or 1 as x is below, equal to or above y.
RECURSIVE BigCmpFrom(_, _, _)
BigCmpFrom(x, y, p) ==
    IF p = 0 THEN 0
    ELSE IF x[p] < y[p] THEN -1
    ELSE IF x[p] > y[p] THEN 1
    ELSE BigCmpFrom(x, y, p - 1)

BigCmp(x, y) ==
    IF Len(x) < Len(y) THEN -1
    ELSE IF Len(x) > Len(y) THEN 1
    ELSE BigCmpFrom(x, y, Len(x))

\* The number of binary digits of a digit n.
SmallBitLen(n) == CHOOSE k \in 0..LimbBits : Pow2(k) > n /\ (k = 0 \/ Pow2(k - 1) <= n)

BigBitLen(x) == IF x = <<>> THEN 0 ELSE (Len(x) - 1) * LimbBits + SmallBitLen(x[Len(x)])

\* x * 2^n and the integer part of x / 2^n.
BigShl(x, n) == BigShiftLimbs(BigMulSmall(x, Pow2(n % LimbBits)), n \div LimbBits)

BigShr(x, n) ==
    BigDivSmall(SubSeq(x, (n \div LimbBits) + 1, Len(x)), Pow2(n % LimbBits)).q

BigOdd(x) == x # <<>> /\ x[1] % 2 = 1

F64Zero == [m |-> <<>>, e |-> 0]

\* The f64 nearest to M * 2^E, ties to even; sticky says that the exact value
\* lies strictly above M * 2^E and below (M + 1) * 2^E.
F64Round(M, E, sticky) ==
    LET L == BigBitLen(M) IN
    IF L = 0 THEN F64Zero
    ELSE IF L <= MantissaBits
    THEN [m |-> BigShl(M, MantissaBits - L), e |-> E - (MantissaBits - L)]
    ELSE LET s == L - MantissaBits
             q == BigShr(M, s)
             r == BigSub(M, BigShl(q, s))
             half == BigShl(<<1>>, s - 1)
             c == BigCmp(r, half)
             up == c > 0 \/ (c = 0 /\ (sticky \/ BigOdd(q)))
             q1 == IF up THEN BigAdd(q, <<1>>) ELSE q
         IN IF BigBitLen(q1) > MantissaBits
            THEN [m |-> BigShr(q1, 1), e |-> E + s + 1]
            ELSE [m |-> q1, e |-> E + s]

\* n as f64
F64FromInt(n) == F64Round(BigFromInt(n), 0, FALSE)

F64One == F64FromInt(1)

F64Add(x, y) ==
    IF x.m = <<>> THEN y
    ELSE IF y.m = <<>> THEN x
    ELSE LET e == Min(x.e, y.e)
         IN F64Round(BigAdd(BigShl(x.m, x.e - e), BigShl(y.m, y.e - e)), e, FALSE)

\* x - y for x >= y: y is zero when x is.
F64Sub(x, y) ==
    IF x.m = <<>> \/ y.m = <<>> THEN x
    ELSE LET e == Min(x.e, y.e)
         IN F64Round(BigSub(BigShl(x.m, x.e - e), BigShl(y.m, y.e - e)), e, FALSE)

F64Mul(x, y) ==
    IF x.m = <<>> \/ y.m = <<>> THEN F64Zero
    ELSE F64Round(BigMul(x.m, y.m), x.e + y.e, FALSE)

\* x / k for an f64 k that holds a positive integer below Base.
F64DivInt(x, k) ==
    IF x.m = <<>> THEN F64Zero
    ELSE LET d == BigDivSmall(BigShl(x.m, 4 * LimbBits), k)
         IN F64Round(d.q, x.e - 4 * LimbBits, d.r # 0)

\* a as f64 / b as f64, and a decimal literal a/b such as 0.6 = 6/10.
F64Div(a, b) == F64DivInt(F64FromInt(a), b)

F64GT(x, y) ==
    IF x.m = <<>> THEN FALSE
    ELSE IF y.m = <<>> THEN TRUE
    ELSE LET e == Min(x.e, y.e)
         IN BigCmp(BigShl(x.m, x.e - e), BigShl(y.m, y.e - e)) > 0

(***************************************************************************)
(* similarity.rs: the metrics as f64 values.                               *)
(*                                                                         *)
(* calculate_similarity above gives the three metrics group_files is run   *)
(* with as exact quotients.  The operators below carry out the same code   *)
(* in f64, for all five algorithms.                                        *)
(***************************************************************************)
levenshtein_similarity_f64(s1, s2) ==
    LET distance == levenshtein(s1, s2)
        max_len == Max(Len(s1), Len(s2))
    IN IF max_len = 0 THEN F64One
       ELSE F64Sub(F64One, F64Div(distance, max_len))

\* The matching loop of strsim's jaro from position i of a on: the positions
\* of a and of b that are flagged as matched.
RECURSIVE JaroFlags(_, _, _, _, _)
JaroFlags(a, b, i, a_flags, b_flags) ==
    IF i > Len(a) THEN [a_flags |-> a_flags, b_flags |-> b_flags]
    ELSE LET search_range == Max(Max(Len(a), Len(b)) \div 2 - 1, 0)
             min_bound == IF i - 1 > search_range THEN i - 1 - search_range ELSE 0
             max_bound == Min(Len(b), i + search_range)
             open == {c \in (min_bound + 1)..max_bound : a[i] = b[c] /\ c \notin b_flags}
         IN IF open = {} THEN JaroFlags(a, b, i + 1, a_flags, b_flags)
            ELSE LET first == CHOOSE c \in open : \A o \in open : c <= o
                 IN JaroFlags(a, b, i + 1, a_flags \cup {i}, b_flags \cup {first})

\* The flagged characters of s, in order.
RECURSIVE Flagged(_, _, _)
Flagged(s, flags, p) ==
    IF p > Len(s) THEN <<>>
    ELSE IF p \in flags THEN <<s[p]>> \o Flagged(s, flags, p + 1)
    ELSE Flagged(s, flags, p + 1)

\* strsim::jaro
jaro(a, b) ==
    LET a_len == Len(a)
        b_len == Len(b)
        f == JaroFlags(a, b, 1, {}, {})
        matches == Cardinality(f.a_flags)
        ma == Flagged(a, f.a_flags, 1)
        mb == Flagged(b, f.b_flags, 1)
        transpositions == Cardinality({k \in 1..matches : ma[k] # mb[k]}) \div 2
    IN IF a_len = 0 /\ b_len = 0 THEN F64One
       ELSE IF a_len = 0 \/ b_len = 0 THEN F64Zero
       ELSE IF matches = 0 THEN F64Zero
       ELSE F64DivInt(F64Add(F64Add(F64Div(matches, a_len), F64Div(matches, b_len)),
                             F64Div(matches - transpositions, matches)), 3)

\* The length of the common prefix of a and b, at most limit.
RECURSIVE CommonPrefix(_, _, _, _)
CommonPrefix(a, b, p, limit) ==
    IF p > limit \/ p > Len(a) \/ p > Len(b) THEN p - 1
    ELSE IF a[p] = b[p] THEN CommonPrefix(a, b, p + 1, limit)
    ELSE p - 1

\* strsim::jaro_winkler
jaro_winkler(a, b) ==
    LET sim0 == jaro(a, b) IN
    IF F64GT(sim0, F64Div(7, 10))
    THEN LET prefix_length == CommonPrefix(a, b, 1, 4)
         IN F64Add(sim0, F64Mul(F64Mul(F64Div(1, 10), F64FromInt(prefix_length)),
                                F64Sub(F64One, sim0)))
    ELSE sim0

jaro_similarity(s1, s2) == jaro_winkler(s1, s2)

\* A faulty token_similarity: the test for one empty side comes first.
token_similarity_one_empty_first(s1, s2) ==
    LET tokens1 == tokenize(s1)
        tokens2 == tokenize(s2)
        set1 == SeqToSet(tokens1)
        set2 == SeqToSet(tokens2)
        intersection == Cardinality(set1 \cap set2)
        union == Cardinality(set1 \cup set2)
    IN IF tokens1 = <<>> \/ tokens2 = <<>> THEN F64Zero
       ELSE IF union = 0 THEN F64One
       ELSE F64Div(intersection, union)

token_similarity_f64(s1, s2) ==
    LET tokens1 == tokenize(s1)
        tokens2 == tokenize(s2)
        set1 == SeqToSet(tokens1)
        set2 == SeqToSet(tokens2)
        intersection == Cardinality(set1 \cap set2)
        union == Cardinality(set1 \cup set2)
    IN IF tokens1 = <<>> /\ tokens2 = <<>> THEN F64One
       ELSE IF tokens1 = <<>> \/ tokens2 = <<>> THEN F64Zero
       ELSE IF union = 0 THEN F64One
       ELSE F64Div(intersection, union)

\* A faulty substring_similarity: the first string is taken as the shorter.
substring_similarity_unordered(s1, s2) ==
    LET norm1 == normalize_for_comparison(s1)
        norm2 == normalize_for_comparison(s2)
    IN IF norm1 = <<>> /\ norm2 = <<>> THEN F64One
       ELSE IF norm1 = <<>> \/ norm2 = <<>> THEN F64Zero
       ELSE IF contains(norm2, norm1) THEN F64Div(Len(norm1), Len(norm2))
       ELSE F64Zero

substring_similarity_f64(s1, s2) ==
    LET norm1 == normalize_for_comparison(s1)
        norm2 == normalize_for_comparison(s2)
        shorter == IF Len(norm1) <= Len(norm2) THEN norm1 ELSE norm2
        longer == IF Len(norm1) <= Len(norm2) THEN norm2 ELSE norm1
    IN IF norm1 = <<>> /\ norm2 = <<>> THEN F64One
       ELSE IF norm1 = <<>> \/ norm2 = <<>> THEN F64Zero
       ELSE IF contains(longer, shorter) THEN F64Div(Len(shorter), Len(longer))
       ELSE F64Zero

\* str::contains('_') || contains('-') || contains(' ')
has_delimiter(s) == \E p \in 1..Len(s) : s[p] \in {"_", "-", " "}

auto_similarity(s1, s2) ==
    LET levenshtein_score == levenshtein_similarity_f64(s1, s2)
        jaro_score == jaro_similarity(s1, s2)
        token == token_similarity_f64(s1, s2)
        has_delimiters == has_delimiter(s1) \/ has_delimiter(s2)
    IN IF has_delimiters
       THEN F64Add(F64Add(F64Mul(token, F64Div(6, 10)), F64Mul(jaro_score, F64Div(3, 10))),
                   F64Mul(levenshtein_score, F64Div(1, 10)))
       ELSE F64Add(F64Add(F64Mul(jaro_score, F64Div(5, 10)),
                          F64Mul(levenshtein_score, F64Div(3, 10))),
                   F64Mul(token, F64Div(2, 10)))

AllAlgorithms == {"Levenshtein", "Jaro", "Token", "Substring", "Auto"}

calculate_similarity_f64(s1, s2, alg, cs) ==
    LET t1 == IF cs THEN s1 ELSE to_lowercase(s1)
        t2 == IF cs THEN s2 ELSE to_lowercase(s2)
    IN CASE alg = "Levenshtein" -> levenshtein_similarity_f64(t1, t2)
         [] alg = "Jaro" -> jaro_similarity(t1, t2)
         [] alg = "Token" -> token_similarity_f64(t1, t2)
         [] alg = "Substring" -> substring_similarity_f64(t1, t2)
         [] alg = "Auto" -> auto_similarity(t1, t2)

(***************************************************************************)
(* grouper.rs: group_files.                                                *)
(*                                                                         *)
(* The arguments of one call are the variables files, threshold,           *)
(* algorithm, case_sensitive and min_group_size; Args packs them so that   *)
(* the helpers below are functions of the call's arguments.                *)
(***************************************************************************)
VARIABLES
    pc,               \* where the running call is (see the actions)
    i,                \* the anchor index of the outer loop of either function
    groups,           \* Vec<Group> of group_files, Vec<SimilarityGroup> of group_similar_files
    \* group_files
    files,            \* Vec<String>: the input list
    threshold,        \* u8: the percentage
    algorithm,        \* &Algorithm
    case_sensitive,   \* bool
    min_group_size,   \* usize
    sim,              \* sim[a][b]: calculate_similarity of files[a] and files[b]
    processed,        \* HashSet<usize>
    current_group,    \* Vec<usize>
    expanded_group,   \* Vec<usize>
    similarities,     \* Vec<f64>
    ungrouped,        \* Vec<String> of the result
    summary,          \* Summary of the result
    built,            \* history: per emitted group (by id) its indices and recorded scores
    rejected,         \* history: the indices that were in a rejected candidate group
    \* group_similar_files
    file_infos,       \* Vec<FileInfo>: the parameter files
    disk,             \* what fs::read gives for each path: a content or "unreadable"
    h,                \* the position of the hashing loop
    j,                \* the index of the inner loop
    processed_files,  \* HashSet<usize>
    similar_files,    \* Vec<FileInfo>
    similarity_type,  \* SimilarityType
    similarity_score, \* f64
    \* calculate_similarity
    s1,               \* &str
    s2,               \* &str
    score             \* f64: the value returned

\* The arguments of a group_files call.
args == <<files, threshold, algorithm, case_sensitive, min_group_size, sim>>

\* The locals and the result of a group_files call.
gfvars == <<processed, current_group, expanded_group, similarities, ungrouped,
            summary, built, rejected>>

\* The state of a group_similar_files call.
sfvars == <<file_infos, disk, h, j, processed_files, similar_files,
            similarity_type, similarity_score>>

\* The strings and the result of a calculate_similarity call; its algorithm
\* and case_sensitive are the variables of those names.
csvars == <<s1, s2, score>>

vars == <<pc, i, groups, args, gfvars, sfvars, csvars>>

Args ==
    [files |-> files, threshold |-> threshold, algorithm |-> algorithm,
     case_sensitive |-> case_sensitive, min_group_size |-> min_group_size,
     sim |-> sim]

\* let threshold_f64 = threshold as f64 / 100.0
threshold_f64(in) == Frac(in.threshold, 100)

\* The scores of all pairs of a list.  calculate_similarity is a pure function
\* of the two names and the call's arguments: the source evaluates it at each
\* use, the model once per call.
AllScores(fs, alg, cs) ==
    [a \in 1..Len(fs) |-> [b \in 1..Len(fs) |-> calculate_similarity(fs[a], fs[b], alg, cs)]]

\* calculate_similarity(&files[a], &files[b], algorithm, case_sensitive)
Sim(in, a, b) == in.sim[a][b]

Contains(q, e) == \E p \in 1..Len(q) : q[p] = e

\* The seed loop, for j in (i + 1)..files.len(), from j = nxt on.
RECURSIVE SeedScan(_, _, _, _, _, _)
SeedScan(in, proc, a, nxt, grp, sims) ==
    IF nxt > Len(in.files) THEN [group |-> grp, sims |-> sims]
    ELSE IF nxt \in proc THEN SeedScan(in, proc, a, nxt + 1, grp, sims)
    ELSE LET similarity == Sim(in, a, nxt) IN
         IF FracGE(similarity, threshold_f64(in))
         THEN SeedScan(in, proc, a, nxt + 1, Append(grp, nxt), Append(sims, similarity))
         ELSE SeedScan(in, proc, a, nxt + 1, grp, sims)

\* A faulty innermost loop: only the indices after the member are scanned.
RECURSIVE ScanKForward(_, _, _, _, _, _)
ScanKForward(in, proc, group_idx, k, exp, sims) ==
    IF k > Len(in.files) THEN [group |-> exp, sims |-> sims]
    ELSE IF k <= group_idx \/ k \in proc \/ Contains(exp, k)
    THEN ScanKForward(in, proc, group_idx, k + 1, exp, sims)
    ELSE LET similarity == Sim(in, group_idx, k) IN
         IF FracGE(similarity, threshold_f64(in))
         THEN ScanKForward(in, proc, group_idx, k + 1, Append(exp, k), Append(sims, similarity))
         ELSE ScanKForward(in, proc, group_idx, k + 1, exp, sims)

\* A faulty innermost loop: the index is pushed and its score is not.
RECURSIVE ScanKUnrecorded(_, _, _, _, _, _)
ScanKUnrecorded(in, proc, group_idx, k, exp, sims) ==
    IF k > Len(in.files) THEN [group |-> exp, sims |-> sims]
    ELSE IF k \in proc \/ Contains(exp, k)
    THEN ScanKUnrecorded(in, proc, group_idx, k + 1, exp, sims)
    ELSE LET similarity == Sim(in, group_idx, k) IN
         IF FracGE(similarity, threshold_f64(in))
         THEN ScanKUnrecorded(in, proc, group_idx, k + 1, Append(exp, k), sims)
         ELSE ScanKUnrecorded(in, proc, group_idx, k + 1, exp, sims)

\* The innermost expansion loop: for k in 0..files.len(), for one member.
RECURSIVE ScanK(_, _, _, _, _, _)
ScanK(in, proc, group_idx, k, exp, sims) ==
    IF k > Len(in.files) THEN [group |-> exp, sims |-> sims]
    ELSE IF k \in proc \/ Contains(exp, k) THEN ScanK(in, proc, group_idx, k + 1, exp, sims)
    ELSE LET similarity == Sim(in, group_idx, k) IN
         IF FracGE(similarity, threshold_f64(in))
         THEN ScanK(in, proc, group_idx, k + 1, Append(exp, k), Append(sims, similarity))
         ELSE ScanK(in, proc, group_idx, k + 1, exp, sims)

\* for &group_idx in current_group.iter(): cur is the list as it was when the
\* pass began, exp the list that grows.
RECURSIVE ScanMembers(_, _, _, _, _, _)
ScanMembers(in, proc, cur, m, exp, sims) ==
    IF m > Len(cur) THEN [group |-> exp, sims |-> sims]
    ELSE LET r == ScanK(in, proc, cur[m], 1, exp, sims)
         IN ScanMembers(in, proc, cur, m + 1, r.group, r.sims)

\* A faulty expansion: one pass over the seed group, never repeated.
ExpandOnePass(in, proc, cur, exp, sims) == ScanMembers(in, proc, cur, 1, exp, sims)

\* A faulty expansion: the seed group is taken as it is.
NoExpansion(in, proc, cur, exp, sims) == [group |-> exp, sims |-> sims]

\* A faulty expansion: only the anchor's own neighbours are gathered.
ExpandFromAnchor(in, proc, cur, exp, sims) == ScanK(in, proc, cur[1], 1, exp, sims)

\* while added_any { ... current_group = expanded_group.clone() }
RECURSIVE ExpandLoop(_, _, _, _, _)
ExpandLoop(in, proc, cur, exp, sims) ==
    LET r == ScanMembers(in, proc, cur, 1, exp, sims)
        added_any == Len(r.group) > Len(exp)
    IN IF added_any THEN ExpandLoop(in, proc, r.group, r.group, r.sims)
       ELSE [group |-> r.group, sims |-> r.sims]

RECURSIVE FracSum(_)
FracSum(q) == IF q = <<>> THEN Zero ELSE FracAdd(Head(q), FracSum(Tail(q)))

\* A faulty mean: the sum is divided by the group size, not the number of scores.
avg_over_members(sims) ==
    IF sims = <<>> THEN One ELSE FracDivInt(FracSum(sims), Len(sims) + 1)

avg_similarity(sims) ==
    IF sims = <<>> THEN One ELSE FracDivInt(FracSum(sims), Len(sims))

\* expanded_group.iter().map(|&idx| files[idx].clone()).collect()
group_file_names(in, exp) == [p \in 1..Len(exp) |-> in.files[exp[p]]]

NewGroup(in, grps, exp, sims) ==
    [id |-> Len(grps) + 1,
     files |-> group_file_names(in, exp),
     similarity |-> avg_similarity(sims)]

\* A faulty acceptance test: any candidate group of two is accepted.
AcceptedPair(in, exp) == Len(exp) >= 2

\* A faulty acceptance test: > in place of >=.
AcceptedStrict(in, exp) == Len(exp) > in.min_group_size

\* Only create a group if it meets the minimum size requirement.
Accepted(in, exp) == Len(exp) >= in.min_group_size

\* A faulty marking: only the anchor of the group is marked.
MarkAnchorOnly(proc, exp) == proc \cup {exp[1]}

\* for &idx in &expanded_group { processed.insert(idx); }
MarkProcessed(proc, exp) == proc \cup SeqToSet(exp)

\* A faulty filter: the test on processed is inverted.
RECURSIVE CollectGrouped(_, _, _)
CollectGrouped(fs, proc, p) ==
    IF p > Len(fs) THEN <<>>
    ELSE IF p \in proc THEN <<fs[p]>> \o CollectGrouped(fs, proc, p + 1)
    ELSE CollectGrouped(fs, proc, p + 1)

\* files.iter().enumerate().filter_map(..): the names of the unprocessed indices.
RECURSIVE CollectUngrouped(_, _, _)
CollectUngrouped(fs, proc, p) ==
    IF p > Len(fs) THEN <<>>
    ELSE IF p \notin proc THEN <<fs[p]>> \o CollectUngrouped(fs, proc, p + 1)
    ELSE CollectUngrouped(fs, proc, p + 1)

\* A faulty comparator: a.similarity.partial_cmp(&b.similarity), ascending.
ComesAfterAscending(a, b) == FracGT(a.similarity, b.similarity)

\* The comparator of groups.sort_by: b.similarity.partial_cmp(&a.similarity);
\* TRUE when a must come after b.
ComesAfter(a, b) == FracGT(b.similarity, a.similarity)

\* Insert g into the sorted list q behind every element it does not precede.
RECURSIVE InsertSorted(_, _)
InsertSorted(q, g) ==
    IF q = <<>> THEN <<g>>
    ELSE IF ComesAfter(Head(q), g) THEN <<g>> \o q
    ELSE <<Head(q)>> \o InsertSorted(Tail(q), g)

\* groups.sort_by(..): a stable sort by descending similarity.
RECURSIVE SortGroups(_, _)
SortGroups(q, acc) ==
    IF q = <<>> THEN acc ELSE SortGroups(Tail(q), InsertSorted(acc, Head(q)))

\* A faulty summary: ungrouped_files counted as the files minus the groups.
MakeSummaryByDifference(in, grps, ungr) ==
    [total_files |-> Len(in.files),
     groups_found |-> Len(grps),
     ungrouped_files |-> Len(in.files) - Len(grps),
     threshold_used |-> threshold_f64(in)]

MakeSummary(in, grps, ungr) ==
    [total_files |-> Len(in.files),
     groups_found |-> Len(grps),
     ungrouped_files |-> Len(ungr),
     threshold_used |-> threshold_f64(in)]

(***************************************************************************)
(* The call as a state machine: one action per step of the outer loop.     *)
(***************************************************************************)
RECURSIVE SeqsUpTo(_)
SeqsUpTo(n) ==
    IF n = 0 THEN {<<>>}
    ELSE LET shorter == SeqsUpTo(n - 1)
         IN shorter \cup {Append(q, e) : q \in {s \in shorter : Len(s) = n - 1}, e \in NamePool}

\* The lists that hold every name of the pool once, in every order.
PoolOrderings ==
    {q \in SeqsUpTo(Cardinality(NamePool)) : SeqToSet(q) = NamePool}

\* The lists of two names followed by the same two names again.
DoubledLists == {q \o q : q \in SeqsUpTo(2)}

\* The lists handed to group_files: every list of at most MaxFiles names of
\* the pool, the orderings of the whole pool and the doubled lists.
Inputs == SeqsUpTo(MaxFiles) \cup PoolOrderings \cup DoubledLists

\* The state of calculate_similarity while another function is the call that runs.
NoCalculateSimilarityCall ==
    /\ s1 = <<>>
    /\ s2 = <<>>
    /\ score = F64Zero

NoSummary == [total_files |-> 0, groups_found |-> 0, ungrouped_files |-> 0,
              threshold_used |-> Zero]

\* The state of group_similar_files while group_files is the call that runs.
NoSimilarFilesCall ==
    /\ file_infos = <<>>
    /\ disk = <<>>
    /\ h = 0
    /\ j = 0
    /\ processed_files = {}
    /\ similar_files = <<>>
    /\ similarity_type = "Identical"
    /\ similarity_score = One

\* group_files is entered: the state after lines 59-61.
InitGroupFiles ==
    /\ files \in Inputs
    /\ algorithm \in Algorithms
    /\ case_sensitive \in BOOLEAN
    /\ sim = AllScores(files, algorithm, case_sensitive)
    /\ threshold \in Thresholds
    /\ min_group_size \in 1..MaxMinGroupSize
    /\ pc = "anchor"
    /\ i = 1
    /\ processed = {}
    /\ groups = <<>>
    /\ current_group = <<>>
    /\ expanded_group = <<>>
    /\ similarities = <<>>
    /\ ungrouped = <<>>
    /\ summary = NoSummary
    /\ built = <<>>
    /\ rejected = {}
    /\ NoSimilarFilesCall
    /\ NoCalculateSimilarityCall

\* The lists and arguments of the tests of grouper.rs.
test_group_files_basic_files ==
    << <<"r", "e", "p", "o", "r", "t", "_", "v", "1", ".", "p", "d", "f">>,
       <<"r", "e", "p", "o", "r", "t", "_", "v", "2", ".", "p", "d", "f">>,
       <<"i", "m", "a", "g", "e", "0", "0", "1", ".", "j", "p", "g">>,
       <<"r", "e", "a", "d", "m", "e", ".", "t", "x", "t">> >>

test_min_group_size_files ==
    << <<"f", "i", "l", "e", "1", ".", "t", "x", "t">>,
       <<"f", "i", "l", "e", "2", ".", "t", "x", "t">>,
       <<"d", "i", "f", "f", "e", "r", "e", "n", "t", ".", "d", "o", "c">> >>

TestCalls ==
    { [files |-> test_group_files_basic_files, threshold |-> 50, algorithm |-> "Token",
       case_sensitive |-> FALSE, min_group_size |-> 2],
      [files |-> test_min_group_size_files, threshold |-> 70, algorithm |-> "Levenshtein",
       case_sensitive |-> FALSE, min_group_size |-> 3] }

\* group_files is entered with the arguments of one of the tests.
InitTestCall ==
    /\ \E c \in TestCalls :
         /\ files = c.files
         /\ threshold = c.threshold
         /\ algorithm = c.algorithm
         /\ case_sensitive = c.case_sensitive
         /\ min_group_size = c.min_group_size
    /\ sim = AllScores(files, algorithm, case_sensitive)
    /\ pc = "anchor"
    /\ i = 1
    /\ processed = {}
    /\ groups = <<>>
    /\ current_group = <<>>
    /\ expanded_group = <<>>
    /\ similarities = <<>>
    /\ ungrouped = <<>>
    /\ summary = NoSummary
    /\ built = <<>>
    /\ rejected = {}
    /\ NoSimilarFilesCall
    /\ NoCalculateSimilarityCall

\* if processed.contains(&i) { continue; }
SkipProcessed ==
    /\ pc = "anchor"
    /\ i <= Len(files)
    /\ i \in processed
    /\ i' = i + 1
    /\ UNCHANGED <<csvars, args, sfvars, pc, processed, groups, current_group,
                   expanded_group, similarities, ungrouped, summary, built, rejected>>

\* let mut current_group = vec![i]; ... the seed loop over j.
Seed ==
    /\ pc = "anchor"
    /\ i <= Len(files)
    /\ i \notin processed
    /\ LET r == SeedScan(Args, processed, i, i + 1, <<i>>, <<>>)
       IN /\ current_group' = r.group
          /\ similarities' = r.sims
    /\ pc' = "expand"
    /\ UNCHANGED <<csvars, args, sfvars, i, processed, groups, expanded_group, ungrouped,
                   summary, built, rejected>>

\* let mut expanded_group = current_group.clone(); while added_any { ... }
Expand ==
    /\ pc = "expand"
    /\ LET r == ExpandLoop(Args, processed, current_group, current_group, similarities)
       IN /\ expanded_group' = r.group
          /\ current_group' = r.group
          /\ similarities' = r.sims
    /\ pc' = "accept"
    /\ UNCHANGED <<csvars, args, sfvars, i, processed, groups, ungrouped, summary, built,
                   rejected>>

\* if expanded_group.len() >= min_group_size { groups.push(..); mark processed }
Accept ==
    /\ pc = "accept"
    /\ Accepted(Args, expanded_group)
    /\ groups' = Append(groups, NewGroup(Args, groups, expanded_group, similarities))
    /\ processed' = MarkProcessed(processed, expanded_group)
    /\ built' = Append(built, [members |-> expanded_group, scores |-> similarities,
                               anchor |-> i])
    /\ i' = i + 1
    /\ pc' = "anchor"
    /\ UNCHANGED <<csvars, args, sfvars, current_group, expanded_group, similarities,
                   ungrouped, summary, rejected>>

\* A faulty else branch: the anchor of a rejected candidate group is marked.
RejectMarkingAnchor ==
    /\ pc = "accept"
    /\ Len(expanded_group) < min_group_size
    /\ processed' = processed \cup {i}
    /\ rejected' = rejected \cup SeqToSet(expanded_group)
    /\ i' = i + 1
    /\ pc' = "anchor"
    /\ UNCHANGED <<csvars, args, sfvars, groups, current_group, expanded_group,
                   similarities, ungrouped, summary, built>>

\* else { /* Don't mark single files as processed */ }
Reject ==
    /\ pc = "accept"
    /\ ~Accepted(Args, expanded_group)
    /\ rejected' = rejected \cup SeqToSet(expanded_group)
    /\ i' = i + 1
    /\ pc' = "anchor"
    /\ UNCHANGED <<csvars, args, sfvars, processed, groups, current_group, expanded_group,
                   similarities, ungrouped, summary, built>>

\* After the loop: collect the ungrouped files, build the summary, sort, return.
Finish ==
    /\ pc = "anchor"
    /\ i > Len(files)
    /\ LET ungr == CollectUngrouped(files, processed, 1)
       IN /\ ungrouped' = ungr
          /\ summary' = MakeSummary(Args, groups, ungr)
    /\ groups' = SortGroups(groups, <<>>)
    /\ pc' = "done"
    /\ UNCHANGED <<csvars, args, sfvars, i, processed, current_group, expanded_group,
                   similarities, built, rejected>>

(***************************************************************************)
(* file_info.rs: FileInfo, calculate_name_similarity, group_similar_files. *)
(*                                                                         *)
(* A FileInfo is [name, size, path, hash] (file_type and last_modified are *)
(* carried along and never read); hash is "None" or the hex digest.  The   *)
(* path of a file is its position on the disk.                             *)
(***************************************************************************)
MaxInfos == 3

Name1 == <<"a", "b", "c", "d", "e", "f", "g", "h", "i", "j">>

\* One substitution away from Name1: a name similarity of exactly 0.9.
Name2 == <<"a", "b", "c", "d", "e", "f", "g", "h", "i", "x">>

\* Normalizes to Name2.
Name3 == <<"A", "b", "c", "d", "e", "_", "f", "g", "h", "i", "x">>

Name4 == <<"x">>

\* Two substitutions away from Name1 and from Name2: exactly 0.8.
Name5 == <<"a", "b", "c", "d", "e", "f", "g", "h", "x", "y">>

\* One insertion away from Name1: 10/11; two edits away from Name2: 9/11.
Name6 == <<"a", "b", "c", "d", "e", "f", "g", "h", "i", "j", "k">>

\* The files a list handed to group_similar_files is drawn from: the name and
\* size of the FileInfo, the hash it arrives with, and what is on the disk.
InfoPool ==
    { [name |-> Name1, size |-> 1, hash |-> "None", content |-> "c1"],
      [name |-> Name2, size |-> 1, hash |-> "None", content |-> "c2"],
      [name |-> Name3, size |-> 2, hash |-> "None", content |-> "c3"],
      [name |-> Name5, size |-> 1, hash |-> "None", content |-> "c4"],
      [name |-> Name4, size |-> 1, hash |-> "None", content |-> "c1"],
      [name |-> Name4, size |-> 1, hash |-> "None", content |-> "unreadable"],
      [name |-> Name6, size |-> 2, hash |-> "h3", content |-> "unreadable"] }

\* hex::encode(Sha256(data)): one digest per content.
Sha256Hex(data) ==
    CASE data = "c1" -> "h1"
      [] data = "c2" -> "h2"
      [] data = "c3" -> "h3"
      [] data = "c4" -> "h4"

\* A faulty calculate_hash: the stored hash is ignored and the file read again.
calculate_hash_unmemoized(f, dsk) ==
    IF dsk[f.path] = "unreadable" THEN [ok |-> FALSE, value |-> "None", file |-> f]
    ELSE LET hash_string == Sha256Hex(dsk[f.path])
         IN [ok |-> TRUE, value |-> hash_string,
             file |-> [f EXCEPT !.hash = hash_string]]

\* A faulty calculate_hash: the digest is returned and never stored in the file.
calculate_hash_not_stored(f, dsk) ==
    IF f.hash # "None" THEN [ok |-> TRUE, value |-> f.hash, file |-> f]
    ELSE IF dsk[f.path] = "unreadable" THEN [ok |-> FALSE, value |-> "None", file |-> f]
    ELSE [ok |-> TRUE, value |-> Sha256Hex(dsk[f.path]), file |-> f]

\* FileInfo::calculate_hash on file f with the disk dsk: the Result and the
\* FileInfo afterwards.
calculate_hash(f, dsk) ==
    IF f.hash # "None" THEN [ok |-> TRUE, value |-> f.hash, file |-> f]
    ELSE IF dsk[f.path] = "unreadable" THEN [ok |-> FALSE, value |-> "None", file |-> f]
    ELSE LET hash_string == Sha256Hex(dsk[f.path])
         IN [ok |-> TRUE, value |-> hash_string,
             file |-> [f EXCEPT !.hash = hash_string]]

\* The closure normalize of calculate_name_similarity.
normalize(s) == FilterAlnum(to_lowercase(s))

calculate_name_similarity(name1, name2) ==
    LET n1 == normalize(name1)
        n2 == normalize(name2)
        len1 == Len(n1)
        len2 == Len(n2)
        \* matrix[len2][len1]: the rows of the table run over the characters of n2
        distance == LevRows(n2, n1, 1, [c \in 1..(len1 + 1) |-> c - 1])
        max_length == Max(len1, len2)
    IN IF n1 = n2 THEN One
       ELSE IF len1 = 0 /\ len2 = 0 THEN One
       ELSE IF len1 = 0 \/ len2 = 0 THEN Zero
       ELSE IF max_length = 0 THEN One
       ELSE FracSub(One, Frac(distance, max_length))

\* A faulty score: the score of the latest match replaces the recorded one.
LatestScore(x, y) == y

\* f64::min
FracMin(x, y) == IF FracGE(y, x) THEN x ELSE y

\* The thresholds of the three-tier detection.
ContentThreshold == <<8, 10>>

NameThreshold == <<9, 10>>

\* Tier 1: both hashes are Some and equal.
Tier1(current_file, compare_file) ==
    /\ current_file.hash # "None"
    /\ compare_file.hash # "None"
    /\ current_file.hash = compare_file.hash

\* A faulty Tier 2: a name similarity of exactly 0.8 is accepted.
Tier2AtLeast(current_file, compare_file) ==
    /\ current_file.size = compare_file.size
    /\ FracGE(calculate_name_similarity(current_file.name, compare_file.name), ContentThreshold)

\* Tier 2: equal sizes and a name similarity above 0.8.
Tier2(current_file, compare_file) ==
    /\ current_file.size = compare_file.size
    /\ FracGT(calculate_name_similarity(current_file.name, compare_file.name), ContentThreshold)

\* Tier 3: a name similarity above 0.9.
Tier3(current_file, compare_file) ==
    FracGT(calculate_name_similarity(current_file.name, compare_file.name), NameThreshold)

\* The comparator of groups.sort_by in group_similar_files; TRUE when a must
\* come after b.
ScoreComesAfter(a, b) == FracGT(b.similarity_score, a.similarity_score)

RECURSIVE InsertByScore(_, _)
InsertByScore(q, g) ==
    IF q = <<>> THEN <<g>>
    ELSE IF ScoreComesAfter(Head(q), g) THEN <<g>> \o q
    ELSE <<Head(q)>> \o InsertByScore(Tail(q), g)

\* groups.sort_by(..) of group_similar_files: stable, by descending score.
RECURSIVE SortSimilarityGroups(_, _)
SortSimilarityGroups(q, acc) ==
    IF q = <<>> THEN acc ELSE SortSimilarityGroups(Tail(q), InsertByScore(acc, Head(q)))

RECURSIVE InfoSeqsUpTo(_)
InfoSeqsUpTo(n) ==
    IF n = 0 THEN {<<>>}
    ELSE LET shorter == InfoSeqsUpTo(n - 1)
         IN shorter \cup {Append(q, e) : q \in {s \in shorter : Len(s) = n - 1}, e \in InfoPool}

\* Lists of four files that yield two groups, the second with the higher score.
TwoGroupLists ==
    { << [name |-> Name1, size |-> 1, hash |-> "None", content |-> "c1"],
         [name |-> Name2, size |-> 1, hash |-> "None", content |-> "c2"],
         [name |-> Name5, size |-> 1, hash |-> "None", content |-> "c4"],
         [name |-> Name5, size |-> 1, hash |-> "None", content |-> "c4"] >>,
      << [name |-> Name4, size |-> 1, hash |-> "None", content |-> "c1"],
         [name |-> Name3, size |-> 2, hash |-> "None", content |-> "c3"],
         [name |-> Name6, size |-> 2, hash |-> "h3", content |-> "unreadable"],
         [name |-> Name1, size |-> 1, hash |-> "None", content |-> "c1"] >> }

\* The state of group_files while group_similar_files is the call that runs.
NoGroupFilesCall ==
    /\ files = <<>>
    /\ threshold = 0
    /\ algorithm = "Auto"
    /\ case_sensitive = FALSE
    /\ min_group_size = 2
    /\ sim = <<>>
    /\ processed = {}
    /\ current_group = <<>>
    /\ expanded_group = <<>>
    /\ similarities = <<>>
    /\ ungrouped = <<>>
    /\ summary = NoSummary
    /\ built = <<>>
    /\ rejected = {}

\* group_similar_files is entered: the state after lines 141-142.
InitGroupSimilarFiles ==
    /\ \E picked \in InfoSeqsUpTo(MaxInfos) \cup TwoGroupLists :
         /\ file_infos = [p \in 1..Len(picked) |->
                            [name |-> picked[p].name, size |-> picked[p].size,
                             path |-> p, hash |-> picked[p].hash]]
         /\ disk = [p \in 1..Len(picked) |-> picked[p].content]
    /\ pc = "hash"
    /\ h = 1
    /\ i = 1
    /\ j = 1
    /\ groups = <<>>
    /\ processed_files = {}
    /\ similar_files = <<>>
    /\ similarity_type = "Identical"
    /\ similarity_score = One
    /\ NoGroupFilesCall
    /\ NoCalculateSimilarityCall

\* A faulty comparison: the candidate is compared with the member absorbed last.
LatestMember == similar_files[Len(similar_files)]

\* let current_file = &files[i]
CurrentFile == file_infos[i]

\* let compare_file = &files[j]
CompareFile == file_infos[j]

\* for file in &mut files { file.calculate_hash()?; }: one file, hashed.
HashFile ==
    /\ pc = "hash"
    /\ h <= Len(file_infos)
    /\ calculate_hash(file_infos[h], disk).ok
    /\ file_infos' = [file_infos EXCEPT ![h] = calculate_hash(file_infos[h], disk).file]
    /\ h' = h + 1
    /\ UNCHANGED <<csvars, pc, i, groups, args, gfvars, disk, j, processed_files,
                   similar_files, similarity_type, similarity_score>>

\* calculate_hash()? on a file that cannot be read: the call returns the Err.
HashFails ==
    /\ pc = "hash"
    /\ h <= Len(file_infos)
    /\ ~calculate_hash(file_infos[h], disk).ok
    /\ pc' = "sim_err"
    /\ UNCHANGED <<csvars, i, groups, args, gfvars, sfvars>>

\* A faulty hand-over: the outer loop begins once the first file is hashed.
HashDoneEarly ==
    /\ pc = "hash"
    /\ h > Min(1, Len(file_infos))
    /\ pc' = "sim_anchor"
    /\ UNCHANGED <<csvars, i, groups, args, gfvars, sfvars>>

\* The hashing loop is over; the outer loop begins.
HashDone ==
    /\ pc = "hash"
    /\ h > Len(file_infos)
    /\ pc' = "sim_anchor"
    /\ UNCHANGED <<csvars, i, groups, args, gfvars, sfvars>>

\* if processed_files.contains(&i) { continue; }
SimSkip ==
    /\ pc = "sim_anchor"
    /\ i <= Len(file_infos)
    /\ i \in processed_files
    /\ i' = i + 1
    /\ UNCHANGED <<csvars, pc, groups, args, gfvars, sfvars>>

\* let mut similar_files = vec![current_file.clone()]; processed_files.insert(i); ...
SimStart ==
    /\ pc = "sim_anchor"
    /\ i <= Len(file_infos)
    /\ i \notin processed_files
    /\ similar_files' = <<file_infos[i]>>
    /\ processed_files' = processed_files \cup {i}
    /\ similarity_type' = "Identical"
    /\ similarity_score' = One
    /\ j' = i + 1
    /\ pc' = "sim_compare"
    /\ UNCHANGED <<csvars, i, groups, args, gfvars, file_infos, disk, h>>

\* if processed_files.contains(&j) { continue; }
CompareSkip ==
    /\ pc = "sim_compare"
    /\ j <= Len(file_infos)
    /\ j \in processed_files
    /\ j' = j + 1
    /\ UNCHANGED <<csvars, pc, i, groups, args, gfvars, file_infos, disk, h, processed_files,
                   similar_files, similarity_type, similarity_score>>

\* A faulty tier 1: the absorbed file is not marked as processed.
CompareIdenticalUnmarked ==
    /\ pc = "sim_compare"
    /\ j <= Len(file_infos)
    /\ j \notin processed_files
    /\ Tier1(CurrentFile, CompareFile)
    /\ similar_files' = Append(similar_files, CompareFile)
    /\ j' = j + 1
    /\ UNCHANGED <<csvars, pc, i, groups, args, gfvars, file_infos, disk, h, processed_files,
                   similarity_type, similarity_score>>

\* Tier 1: Identical Content Detection.
CompareIdentical ==
    /\ pc = "sim_compare"
    /\ j <= Len(file_infos)
    /\ j \notin processed_files
    /\ Tier1(CurrentFile, CompareFile)
    /\ similar_files' = Append(similar_files, CompareFile)
    /\ processed_files' = processed_files \cup {j}
    /\ j' = j + 1
    /\ UNCHANGED <<csvars, pc, i, groups, args, gfvars, file_infos, disk, h,
                   similarity_type, similarity_score>>

\* Tier 2: Content Similarity (Size + Name).
CompareContent ==
    /\ pc = "sim_compare"
    /\ j <= Len(file_infos)
    /\ j \notin processed_files
    /\ ~Tier1(CurrentFile, CompareFile)
    /\ Tier2(CurrentFile, CompareFile)
    /\ similar_files' = Append(similar_files, CompareFile)
    /\ processed_files' = processed_files \cup {j}
    /\ similarity_type' = "Content"
    /\ similarity_score' =
          FracMin(similarity_score,
                  calculate_name_similarity(CurrentFile.name, CompareFile.name))
    /\ j' = j + 1
    /\ UNCHANGED <<csvars, pc, i, groups, args, gfvars, file_infos, disk, h>>

\* A faulty tier 3: a group that is already Content keeps that tier.
CompareNameKeepsTier ==
    /\ pc = "sim_compare"
    /\ j <= Len(file_infos)
    /\ j \notin processed_files
    /\ ~Tier1(CurrentFile, CompareFile)
    /\ ~Tier2(CurrentFile, CompareFile)
    /\ Tier3(CurrentFile, CompareFile)
    /\ similar_files' = Append(similar_files, CompareFile)
    /\ processed_files' = processed_files \cup {j}
    /\ similarity_type' = IF similarity_type = "Content" THEN "Content" ELSE "Name"
    /\ similarity_score' =
          FracMin(similarity_score,
                  calculate_name_similarity(CurrentFile.name, CompareFile.name))
    /\ j' = j + 1
    /\ UNCHANGED <<csvars, pc, i, groups, args, gfvars, file_infos, disk, h>>

\* Tier 3: Name-Only Similarity.
CompareName ==
    /\ pc = "sim_compare"
    /\ j <= Len(file_infos)
    /\ j \notin processed_files
    /\ ~Tier1(CurrentFile, CompareFile)
    /\ ~Tier2(CurrentFile, CompareFile)
    /\ Tier3(CurrentFile, CompareFile)
    /\ similar_files' = Append(similar_files, CompareFile)
    /\ processed_files' = processed_files \cup {j}
    /\ similarity_type' = "Name"
    /\ similarity_score' =
          FracMin(similarity_score,
                  calculate_name_similarity(CurrentFile.name, CompareFile.name))
    /\ j' = j + 1
    /\ UNCHANGED <<csvars, pc, i, groups, args, gfvars, file_infos, disk, h>>

\* No tier holds for the pair.
CompareNone ==
    /\ pc = "sim_compare"
    /\ j <= Len(file_infos)
    /\ j \notin processed_files
    /\ ~Tier1(CurrentFile, CompareFile)
    /\ ~Tier2(CurrentFile, CompareFile)
    /\ ~Tier3(CurrentFile, CompareFile)
    /\ j' = j + 1
    /\ UNCHANGED <<csvars, pc, i, groups, args, gfvars, file_infos, disk, h, processed_files,
                   similar_files, similarity_type, similarity_score>>

\* A faulty end of the inner loop: a group is pushed for every anchor.
SimEndAlways ==
    /\ pc = "sim_compare"
    /\ j > Len(file_infos)
    /\ groups' = Append(groups, [id |-> Len(groups),
                                 files |-> similar_files,
                                 similarity_type |-> similarity_type,
                                 similarity_score |-> similarity_score])
    /\ i' = i + 1
    /\ pc' = "sim_anchor"
    /\ UNCHANGED <<csvars, args, gfvars, sfvars>>

\* The inner loop is over: only create groups with more than one file.
SimEnd ==
    /\ pc = "sim_compare"
    /\ j > Len(file_infos)
    /\ groups' = IF Len(similar_files) > 1
                 THEN Append(groups, [id |-> Len(groups),
                                      files |-> similar_files,
                                      similarity_type |-> similarity_type,
                                      similarity_score |-> similarity_score])
                 ELSE groups
    /\ i' = i + 1
    /\ pc' = "sim_anchor"
    /\ UNCHANGED <<csvars, args, gfvars, sfvars>>

\* After the outer loop: sort the groups and return Ok(groups).
SimFinish ==
    /\ pc = "sim_anchor"
    /\ i > Len(file_infos)
    /\ groups' = SortSimilarityGroups(groups, <<>>)
    /\ pc' = "sim_done"
    /\ UNCHANGED <<csvars, i, args, gfvars, sfvars>>

(***************************************************************************)
(* similarity.rs: one call of calculate_similarity.                        *)
(***************************************************************************)
MaxStrLen == 2

\* The strings of at most n characters over a letter, a second letter and a
\* delimiter.
RECURSIVE StringsUpTo(_)
StringsUpTo(n) ==
    IF n = 0 THEN {<<>>}
    ELSE LET shorter == StringsUpTo(n - 1)
         IN shorter \cup {Append(q, c) : q \in {s \in shorter : Len(s) = n - 1},
                                         c \in {"a", "b", "_"}}

\* Longer strings: a single letter, an extension alone, names with each
\* delimiter, with a capital and with an extension, and names whose letters
\* are those of another name in another order.
StringPool ==
    { <<>>,
      <<"x">>,
      <<".", "t", "x", "t">>,
      <<"-">>,
      <<"A", "_", "b">>,
      <<"a", " ", "b", ".", "c">>,
      <<"a", "b", "c", "d">>,
      <<"b", "a", "c", "d">>,
      <<"a", "b", "c", "d", "e", "f">>,
      <<"a", "b", "d", "c", "f", "e">>,
      <<"h", "e", "l", "l", "o">>,
      <<"h", "a", "l", "l", "o">> }

\* calculate_similarity is entered with its four arguments.
InitCalculateSimilarity ==
    /\ s1 \in StringsUpTo(MaxStrLen) \cup StringPool
    /\ s2 \in StringsUpTo(MaxStrLen) \cup StringPool
    /\ algorithm \in AllAlgorithms
    /\ case_sensitive \in BOOLEAN
    /\ score = F64Zero
    /\ pc = "calc"
    /\ i = 1
    /\ groups = <<>>
    /\ files = <<>>
    /\ threshold = 0
    /\ min_group_size = 2
    /\ sim = <<>>
    /\ processed = {}
    /\ current_group = <<>>
    /\ expanded_group = <<>>
    /\ similarities = <<>>
    /\ ungrouped = <<>>
    /\ summary = NoSummary
    /\ built = <<>>
    /\ rejected = {}
    /\ NoSimilarFilesCall

\* The call runs to its return.
CalculateSimilarity ==
    /\ pc = "calc"
    /\ score' = calculate_similarity_f64(s1, s2, algorithm, case_sensitive)
    /\ pc' = "calc_done"
    /\ UNCHANGED <<i, groups, args, gfvars, sfvars, s1, s2>>

Init == InitGroupFiles \/ InitTestCall \/ InitGroupSimilarFiles

GroupFilesNext == SkipProcessed \/ Seed \/ Expand \/ Accept \/ Reject \/ Finish

GroupSimilarFilesNext ==
    \/ HashFile \/ HashFails \/ HashDone \/ SimSkip \/ SimStart \/ CompareSkip
    \/ CompareIdentical \/ CompareContent \/ CompareName \/ CompareNone
    \/ SimEnd \/ SimFinish

Next == GroupFilesNext \/ GroupSimilarFilesNext

Spec == Init /\ [][Next]_vars

SimilaritySpec == InitCalculateSimilarity /\ [][CalculateSimilarity]_vars

(***************************************************************************)
(* Properties of group_files.                                              *)
(***************************************************************************)
\* group_files is the call that runs, and it has returned.
InGroupFiles == pc \in {"anchor", "expand", "accept", "done"}

Returned == pc = "done"

\* The indices of the group g of the result (built is indexed by Group.id).
MembersOf(g) == built[g.id].members

NoDuplicates(q) == \A p1, p2 \in 1..Len(q) : q[p1] = q[p2] => p1 = p2

\* The elements of a set of integers in increasing order.
RECURSIVE Ascending(_)
Ascending(S) ==
    IF S = {} THEN <<>>
    ELSE LET m == CHOOSE e \in S : \A o \in S : e <= o
         IN <<m>> \o Ascending(S \ {m})

NamesAt(idx) == [p \in 1..Len(idx) |-> files[idx[p]]]

RECURSIVE Flatten(_)
Flatten(qs) == IF qs = <<>> THEN <<>> ELSE Head(qs) \o Flatten(Tail(qs))

GroupedIndices == UNION {SeqToSet(MembersOf(groups[g])) : g \in 1..Len(groups)}

BagOfSeq(q) == [e \in SeqToSet(q) |-> Cardinality({p \in 1..Len(q) : q[p] = e})]

\* C1: after group_files returns, every input index is in exactly one place:
\* once in one group, or in the ungrouped list.  No index is in two groups or
\* twice in one group, none is both grouped and ungrouped, none is missing; the
\* names of the result are the names of the input, each as often as in the input.
C1_Partition ==
    Returned =>
        /\ \A g \in 1..Len(groups) :
             /\ NoDuplicates(MembersOf(groups[g]))
             /\ SeqToSet(MembersOf(groups[g])) \subseteq 1..Len(files)
             /\ groups[g].files = NamesAt(MembersOf(groups[g]))
        /\ \A g1, g2 \in 1..Len(groups) :
             g1 # g2 => SeqToSet(MembersOf(groups[g1])) \cap SeqToSet(MembersOf(groups[g2])) = {}
        /\ ungrouped = NamesAt(Ascending((1..Len(files)) \ GroupedIndices))
        /\ BagOfSeq(Flatten([g \in 1..Len(groups) |-> groups[g].files]) \o ungrouped)
             = BagOfSeq(files)

\* A call that returned groups of several members and left files ungrouped.
C1_Witness ==
    /\ Returned
    /\ Len(groups) >= 1
    /\ \E g \in 1..Len(groups) : Len(groups[g].files) >= 3
    /\ Len(ungrouped) >= 1

\* C2: when the expansion step of an anchor is finished, no unprocessed index
\* outside the candidate group, at any position, scores at or above the
\* threshold against a member of the candidate group.
C2_ExpansionClosed ==
    pc = "accept" =>
        \A m \in SeqToSet(expanded_group) :
            \A k \in 1..Len(files) :
                (k \notin processed /\ k \notin SeqToSet(expanded_group))
                    => ~FracGE(Sim(Args, m, k), <<threshold, 100>>)

\* A closed candidate group that the expansion grew by an index lower than its
\* anchor, while an unprocessed index stays outside it.
C2_Witness ==
    /\ pc = "accept"
    /\ \E k \in SeqToSet(expanded_group) : k < i
    /\ \E k \in 1..Len(files) : k \notin processed /\ k \notin SeqToSet(expanded_group)

\* C3: at the acceptance step a group is emitted exactly when the closed
\* candidate group has at least min_group_size members, and it is that
\* candidate group; every emitted group has at least min_group_size members;
\* the members of emitted groups are processed, and no candidate group of a
\* later anchor holds a processed index.
C3_EmittedGroupsInv ==
    /\ InGroupFiles => \A g \in 1..Len(groups) :
         /\ Len(groups[g].files) >= min_group_size
         /\ SeqToSet(MembersOf(groups[g])) \subseteq processed
    /\ pc = "expand" => SeqToSet(current_group) \cap processed = {}
    /\ pc = "accept" => SeqToSet(expanded_group) \cap processed = {}

C3_EmitStep ==
    pc = "accept" =>
        /\ (Len(groups') = Len(groups) + 1) <=> (Len(expanded_group) >= min_group_size)
        /\ (Len(groups') = Len(groups)) <=> (Len(expanded_group) < min_group_size)
        /\ Len(groups') > Len(groups) =>
             /\ groups'[Len(groups')].files = NamesAt(expanded_group)
             /\ SubSeq(groups', 1, Len(groups)) = groups
             /\ SeqToSet(expanded_group) \subseteq processed'

C3_EmitIffMinSize == [](C3_EmittedGroupsInv) /\ [][C3_EmitStep]_vars

\* A second group is emitted after a first one was, by a later anchor.
C3_Witness ==
    /\ pc = "anchor"
    /\ Len(groups) >= 2
    /\ min_group_size >= 2

\* C4: an anchor iteration whose closed candidate group is smaller than
\* min_group_size leaves processed and groups as they were; the seed and the
\* expansion step never change them.
C4_RejectStep ==
    /\ (pc = "accept" /\ Len(expanded_group) < min_group_size)
          => (processed' = processed /\ groups' = groups)
    /\ (pc = "expand" \/ (pc = "anchor" /\ pc' # "done"))
          => (processed' = processed /\ groups' = groups)

C4_RejectLeavesProcessed == [][C4_RejectStep]_vars

\* A candidate group of two members was rejected and its members are unprocessed.
C4_Witness ==
    /\ pc = "anchor"
    /\ i > 1
    /\ Cardinality(rejected) >= 2
    /\ Len(current_group) >= 2
    /\ SeqToSet(expanded_group) \cap processed = {}
    /\ Len(expanded_group) < min_group_size

\* The outer loop of group_files from anchor a on, as one function of the
\* call's arguments:  TRUE when some emitted group holds an index that was in a
\* candidate group rejected at an earlier anchor.
RECURSIVE AbsorbsRejected(_, _, _, _)
AbsorbsRejected(in, a, proc, rej) ==
    IF a > Len(in.files) THEN FALSE
    ELSE IF a \in proc THEN AbsorbsRejected(in, a + 1, proc, rej)
    ELSE LET s == SeedScan(in, proc, a, a + 1, <<a>>, <<>>)
             e == ExpandLoop(in, proc, s.group, s.group, s.sims)
         IN IF Accepted(in, e.group)
            THEN \/ SeqToSet(e.group) \cap rej # {}
                 \/ AbsorbsRejected(in, a + 1, MarkProcessed(proc, e.group), rej)
            ELSE AbsorbsRejected(in, a + 1, proc, rej \cup SeqToSet(e.group))

CallArgs(fs, t, alg, cs, m) ==
    [files |-> fs, threshold |-> t, algorithm |-> alg, case_sensitive |-> cs,
     min_group_size |-> m, sim |-> AllScores(fs, alg, cs)]

\* C5 as stated: some call, with a symmetric score, absorbs into a later,
\* larger emitted group an index whose own candidate group was rejected.
C5_SomeCallAbsorbsRejected ==
    \E fs \in Inputs, t \in Thresholds, alg \in Algorithms, cs \in BOOLEAN,
       m \in 1..MaxMinGroupSize :
        AbsorbsRejected(CallArgs(fs, t, alg, cs, m), 1, {}, {})

SymmetricScore == \A a, b \in 1..Len(files) : sim[a][b] = sim[b][a]

\* C5 (amended): with a symmetric score, an index that was in a rejected
\* candidate group is never in an emitted group: it stays unprocessed, and
\* after the return its name is in the ungrouped list.
C5_RejectedNeverAbsorbed ==
    SymmetricScore =>
        /\ rejected \cap processed = {}
        /\ \A g \in 1..Len(built) : SeqToSet(built[g].members) \cap rejected = {}
        /\ Returned => \A r \in rejected : Contains(ungrouped, files[r])

\* A candidate group was rejected, a later anchor's larger group was emitted,
\* and the call returned.
C5_Witness ==
    /\ Returned
    /\ SymmetricScore
    /\ \E r \in rejected : \E g \in 1..Len(built) :
          /\ built[g].anchor > r
          /\ Len(built[g].members) >= 3

\* C6: the ungrouped list of the result is the names of the indices that are
\* not in processed, in input order.
C6_UngroupedIsUnprocessed ==
    Returned => ungrouped = NamesAt(Ascending((1..Len(files)) \ processed))

\* Ungrouped names on both sides of a grouped one.
C6_Witness ==
    /\ Returned
    /\ Len(ungrouped) >= 2
    /\ \E a, b, c \in 1..Len(files) :
          a < b /\ b < c /\ a \notin processed /\ b \in processed /\ c \notin processed
          /\ files[a] # files[c]

\* C7: the groups of the result of group_files are in non-increasing order of
\* similarity, and the groups returned by group_similar_files are in
\* non-increasing order of similarity_score.
C7_GroupsSortedDescending ==
    /\ Returned =>
         \A p \in 1..(Len(groups) - 1) :
            FracGE(groups[p].similarity, groups[p + 1].similarity)
    /\ pc = "sim_done" =>
         \A p \in 1..(Len(groups) - 1) :
            FracGE(groups[p].similarity_score, groups[p + 1].similarity_score)

\* group_files returned two groups of different similarity, the one emitted
\* second first.
C7_Witness ==
    /\ Returned
    /\ Len(groups) >= 2
    /\ groups[1].id > groups[2].id
    /\ FracGT(groups[1].similarity, groups[2].similarity)

\* group_similar_files returned two groups of different score, the one pushed
\* second first.
SimilarGroupsReordered ==
    /\ pc = "sim_done"
    /\ Len(groups) >= 2
    /\ groups[1].id > groups[2].id
    /\ FracGT(groups[1].similarity_score, groups[2].similarity_score)

\* C8: the similarity of an emitted group is the arithmetic mean of the scores
\* recorded while it was built: one score per member after the anchor, each the
\* score of that member against a member added before it and each at or above
\* the threshold; with no score recorded the similarity is 1.0.
C8_SimilarityIsMean ==
    InGroupFiles => \A g \in 1..Len(groups) :
        LET b == built[groups[g].id] IN
        /\ Len(b.scores) = Len(b.members) - 1
        /\ \A p \in 1..Len(b.scores) :
             /\ FracGE(b.scores[p], <<threshold, 100>>)
             /\ \E q \in 1..p :
                  b.scores[p] = Sim(Args, b.members[q], b.members[p + 1])
        /\ b.scores = <<>> => groups[g].similarity = <<1, 1>>
        /\ b.scores # <<>> =>
             LET total == FracSum(b.scores) IN
             groups[g].similarity[1] * total[2] * Len(b.scores)
                 = total[1] * groups[g].similarity[2]

\* An emitted group of three members whose recorded scores differ.
C8_Witness ==
    InGroupFiles /\ \E g \in 1..Len(groups) :
        LET b == built[groups[g].id] IN
        /\ Len(b.scores) >= 2
        /\ b.scores[1] # b.scores[2]
        /\ groups[g].similarity # b.scores[1]

\* C9: the summary agrees with the result.
C9_SummaryConsistent ==
    Returned =>
        /\ summary.total_files = Len(files)
        /\ summary.groups_found = Len(groups)
        /\ summary.ungrouped_files = Len(ungrouped)
        /\ summary.threshold_used[1] * 100 = threshold * summary.threshold_used[2]
        /\ summary.total_files
             = Len(Flatten([g \in 1..Len(groups) |-> groups[g].files])) + summary.ungrouped_files

\* A returned call over a full-length list with a group and an ungrouped file.
C9_Witness ==
    /\ Returned
    /\ summary.groups_found >= 1
    /\ summary.ungrouped_files >= 1
    /\ summary.total_files = MaxFiles

(***************************************************************************)
(* Relations between calls of group_files.                                 *)
(***************************************************************************)
\* The outer loop of group_files from anchor a on, as one function of the
\* call's arguments: the index lists of the groups it emits, in emission order.
RECURSIVE EmittedGroups(_, _, _)
EmittedGroups(in, a, proc) ==
    IF a > Len(in.files) THEN <<>>
    ELSE IF a \in proc THEN EmittedGroups(in, a + 1, proc)
    ELSE LET s == SeedScan(in, proc, a, a + 1, <<a>>, <<>>)
             e == ExpandLoop(in, proc, s.group, s.group, s.sims)
         IN IF Accepted(in, e.group)
            THEN <<e.group>> \o EmittedGroups(in, a + 1, MarkProcessed(proc, e.group))
            ELSE EmittedGroups(in, a + 1, proc)

\* The groups of the call that differs from the running one in the threshold only.
GroupsAtThreshold(t) == EmittedGroups([Args EXCEPT !.threshold = t], 1, {})

\* C11: for thresholds t1 <= t2 and the same list, algorithm, flag and
\* min_group_size, every group emitted at t2 lies inside one group emitted at
\* t1.  The running call is the one at t2; the call at t1 is evaluated on the
\* same arguments.
C11_HigherThresholdRefines ==
    Returned =>
        \A t1 \in Thresholds :
            t1 <= threshold =>
                LET lower == GroupsAtThreshold(t1) IN
                \A g \in 1..Len(built) :
                    \E l \in 1..Len(lower) :
                        SeqToSet(built[g].members) \subseteq SeqToSet(lower[l])

\* A call at the higher threshold returned a group that is strictly smaller
\* than the group holding it at the lower threshold.
C11_Witness ==
    /\ Returned
    /\ \E t1 \in Thresholds :
         /\ t1 < threshold
         /\ \E g \in 1..Len(built) : \E l \in 1..Len(GroupsAtThreshold(t1)) :
              /\ SeqToSet(built[g].members) \subseteq SeqToSet(GroupsAtThreshold(t1)[l])
              /\ Len(built[g].members) < Len(GroupsAtThreshold(t1)[l])

\* The pairs a < b of input indices whose score, in either direction, is at
\* or above the threshold percentage.
PairsAtOrAbove ==
    {pr \in (1..Len(files)) \X (1..Len(files)) :
        /\ pr[1] < pr[2]
        /\ \/ sim[pr[1]][pr[2]][1] * 100 >= threshold * sim[pr[1]][pr[2]][2]
           \/ sim[pr[2]][pr[1]][1] * 100 >= threshold * sim[pr[2]][pr[1]][2]}

\* C12: with min_group_size = 2, when exactly one pair of items scores at or
\* above the threshold (a score equal to the threshold counts), the call
\* returns exactly one group, of exactly that pair, and every other item is in
\* the ungrouped list in input order.
C12_SinglePairSingleGroup ==
    (Returned /\ min_group_size = 2 /\ Cardinality(PairsAtOrAbove) = 1) =>
        LET pr == CHOOSE q \in PairsAtOrAbove : TRUE IN
        /\ Len(groups) = 1
        /\ built[groups[1].id].members = <<pr[1], pr[2]>>
        /\ groups[1].files = <<files[pr[1]], files[pr[2]]>>
        /\ ungrouped = NamesAt(Ascending((1..Len(files)) \ {pr[1], pr[2]}))

\* The call of test_group_files_basic returned: the one pair at or above the
\* threshold, report_v1.pdf and report_v2.pdf, scores exactly the threshold.
C12_Witness ==
    /\ Returned
    /\ files = test_group_files_basic_files
    /\ min_group_size = 2
    /\ PairsAtOrAbove = {<<1, 2>>}
    /\ sim[1][2][1] * 100 = threshold * sim[1][2][2]
    /\ Len(groups) = 1
    /\ Len(ungrouped) = 2

\* A call on a list of the pool returned with one pair scoring exactly the
\* threshold, the pair not adjacent in the list.
SinglePairOfPoolAtThreshold ==
    /\ Returned
    /\ files \in Inputs
    /\ min_group_size = 2
    /\ Cardinality(PairsAtOrAbove) = 1
    /\ \E pr \in PairsAtOrAbove :
         /\ pr[2] > pr[1] + 1
         /\ sim[pr[1]][pr[2]][1] * 100 = threshold * sim[pr[1]][pr[2]][2]

\* The indices joined to an index of S by a pair at or above the threshold.
Neighbours(S) ==
    {k \in 1..Len(files) :
        \E m \in S :
            /\ m # k
            /\ \/ sim[m][k][1] * 100 >= threshold * sim[m][k][2]
               \/ sim[k][m][1] * 100 >= threshold * sim[k][m][2]}

\* The set of indices connected to a through pairs at or above the threshold.
RECURSIVE ConnectedFrom(_)
ConnectedFrom(S) ==
    LET grown == S \cup Neighbours(S) IN IF grown = S THEN S ELSE ConnectedFrom(grown)

\* C13: when no set of items connected through pairs at or above the threshold
\* has min_group_size members, the call returns no group and the ungrouped
\* list is the whole input in input order, whatever single pairs score.
C13_NoLargeComponentNoGroup ==
    (Returned /\ \A a \in 1..Len(files) : Cardinality(ConnectedFrom({a})) < min_group_size) =>
        /\ groups = <<>>
        /\ ungrouped = files
        /\ processed = {}

\* The call of test_min_group_size returned: file1.txt and file2.txt score
\* above the threshold and min_group_size is 3.
C13_Witness ==
    /\ Returned
    /\ files = test_min_group_size_files
    /\ min_group_size = 3
    /\ <<1, 2>> \in PairsAtOrAbove
    /\ \A a \in 1..Len(files) : Cardinality(ConnectedFrom({a})) < min_group_size
    /\ Len(ungrouped) = 3

\* A call on a list of the pool returned with two separate connected pairs,
\* each below min_group_size.
TwoSmallComponentsOfPool ==
    /\ Returned
    /\ files \in Inputs
    /\ Cardinality(PairsAtOrAbove) >= 2
    /\ \A a \in 1..Len(files) : Cardinality(ConnectedFrom({a})) < min_group_size

(***************************************************************************)
(* Properties of group_similar_files.                                      *)
(***************************************************************************)
\* The normalized-name similarity of two files.
NameScore(f, g) == calculate_name_similarity(f.name, g.name)

\* The three rules as the claims state them.
HashRule(f, g) == f.hash # "None" /\ g.hash # "None" /\ f.hash = g.hash

ContentRule(f, g) == f.size = g.size /\ NameScore(f, g)[1] * 10 > 8 * NameScore(f, g)[2]

NameRule(f, g) == NameScore(f, g)[1] * 10 > 9 * NameScore(f, g)[2]

\* The smaller of two scores.
LeastOf(x, y) == IF x[1] * y[2] <= y[1] * x[2] THEN x ELSE y

\* C14: a step that examines an unprocessed candidate j absorbs it exactly
\* when a rule holds; the rules are tried in the order hash, content, name,
\* and only the first that holds acts: a hash match leaves type and score as
\* they are, a content match sets Content, a name match sets Name; a pair that
\* satisfies no rule is not absorbed and nothing but j changes.
C14_TierStep ==
    (pc = "sim_compare" /\ j <= Len(file_infos) /\ j \notin processed_files) =>
        LET f == file_infos[i]
            g == file_infos[j]
            absorbed == j \in processed_files'
        IN /\ absorbed <=> (HashRule(f, g) \/ ContentRule(f, g) \/ NameRule(f, g))
           /\ absorbed => /\ similar_files' = Append(similar_files, g)
                          /\ processed_files' = processed_files \cup {j}
           /\ ~absorbed => /\ similar_files' = similar_files
                           /\ processed_files' = processed_files
                           /\ similarity_type' = similarity_type
                           /\ similarity_score' = similarity_score
           /\ HashRule(f, g) =>
                 /\ similarity_type' = similarity_type
                 /\ similarity_score' = similarity_score
           /\ (~HashRule(f, g) /\ ContentRule(f, g)) =>
                 /\ similarity_type' = "Content"
                 /\ similarity_score' = LeastOf(similarity_score, NameScore(f, g))
           /\ (~HashRule(f, g) /\ ~ContentRule(f, g) /\ NameRule(f, g)) =>
                 /\ similarity_type' = "Name"
                 /\ similarity_score' = LeastOf(similarity_score, NameScore(f, g))
           /\ j' = j + 1
           /\ i' = i /\ groups' = groups /\ file_infos' = file_infos

C14_FirstTierWins == [][C14_TierStep]_vars

\* The anchor has absorbed, as Identical, a file that also satisfies the
\* content rule, and has passed over a file of equal size whose name
\* similarity is exactly 0.8.
C14_Witness ==
    /\ pc = "sim_compare"
    /\ similarity_type = "Identical"
    /\ \E m \in 2..Len(similar_files) :
          HashRule(file_infos[i], similar_files[m]) /\ ContentRule(file_infos[i], similar_files[m])
    /\ \E k \in (i + 1)..(j - 1) :
          /\ k \notin processed_files
          /\ file_infos[k].size = file_infos[i].size
          /\ NameScore(file_infos[i], file_infos[k]) = <<4, 5>>

\* C15 as stated: once the anchor has absorbed its first member, no later
\* step of the inner loop changes the tier recorded for the group.
C15_TierStep ==
    (pc = "sim_compare" /\ Len(similar_files) >= 2) => similarity_type' = similarity_type

C15_TierFixedByFirstMatch == [][C15_TierStep]_vars

\* group_similar_files is past its hashing loop: groups holds SimilarityGroups.
InGroupSimilarFiles == pc \in {"sim_anchor", "sim_compare", "sim_done"}

SimilarReturned == pc = "sim_done"

\* The pair score of the match that absorbed member g under anchor f: 1.0 for
\* a hash match, the normalized-name similarity otherwise.
PairScore(f, g) == IF HashRule(f, g) THEN <<1, 1>> ELSE NameScore(f, g)

\* The least of the pair scores of the members 2..n of a group's file list.
RECURSIVE LeastPairScore(_, _)
LeastPairScore(fs, n) ==
    IF n < 2 THEN <<1, 1>>
    ELSE LeastOf(LeastPairScore(fs, n - 1), PairScore(fs[1], fs[n]))

\* C16: the similarity_score of every group group_similar_files returns is the
\* minimum of the pair scores of the matches that absorbed its members, a hash
\* match counting 1.0 and a content or name match the normalized-name
\* similarity of the anchor and the member.
C16_ScoreIsMinimum ==
    SimilarReturned =>
        \A g \in 1..Len(groups) :
            groups[g].similarity_score = LeastPairScore(groups[g].files, Len(groups[g].files))

\* A returned group of three or more files whose score is that of an earlier
\* match, below the pair score of its last member.
C16_Witness ==
    /\ SimilarReturned
    /\ \E g \in 1..Len(groups) :
         LET fs == groups[g].files IN
         /\ Len(fs) >= 3
         /\ groups[g].similarity_score # PairScore(fs[1], fs[Len(fs)])
         /\ groups[g].similarity_score # <<1, 1>>
         /\ \E m \in 2..Len(fs) : HashRule(fs[1], fs[m])

\* Some rule holds for anchor f and candidate g.
SomeRule(f, g) == HashRule(f, g) \/ ContentRule(f, g) \/ NameRule(f, g)

\* C17: every member of a returned group of group_similar_files after the first
\* satisfies a rule against the first file, the anchor; a file that satisfies
\* no rule against the anchor of a group is not in it, whatever rules it
\* satisfies against the other members.
C17_AnchorOnly ==
    SimilarReturned =>
        \A g \in 1..Len(groups) :
            LET fs == groups[g].files IN
            /\ \A m \in 2..Len(fs) : SomeRule(fs[1], fs[m])
            /\ \A k \in 1..Len(file_infos) :
                  ~SomeRule(fs[1], file_infos[k]) =>
                      \A m \in 2..Len(fs) : fs[m].path # file_infos[k].path

\* A returned group and a file outside it that satisfies a rule against a
\* member of the group other than the anchor, and none against the anchor.
C17_Witness ==
    /\ SimilarReturned
    /\ \E g \in 1..Len(groups) : \E k \in 1..Len(file_infos) :
         LET fs == groups[g].files IN
         /\ \A m \in 1..Len(fs) : fs[m].path # file_infos[k].path
         /\ file_infos[k].path > fs[1].path
         /\ ~SomeRule(fs[1], file_infos[k])
         /\ \E m \in 2..Len(fs) :
               /\ fs[m].path < file_infos[k].path
               /\ SomeRule(fs[m], file_infos[k])

\* C18: every group of group_similar_files has more than one file; when the
\* inner loop of an anchor ends, a group is pushed exactly when the anchor
\* absorbed a later file, and it is the anchor with the files it absorbed.
C18_GroupsInv ==
    InGroupSimilarFiles => \A g \in 1..Len(groups) : Len(groups[g].files) > 1

C18_EndStep ==
    (pc = "sim_compare" /\ j > Len(file_infos)) =>
        /\ Len(similar_files) = 1 => groups' = groups
        /\ Len(similar_files) > 1 =>
             /\ Len(groups') = Len(groups) + 1
             /\ SubSeq(groups', 1, Len(groups)) = groups
             /\ groups'[Len(groups')].files = similar_files

C18_NoSingletonGroup == [](C18_GroupsInv) /\ [][C18_EndStep]_vars

\* The call returned a group, and a file that is in no group: it was an
\* anchor that absorbed nothing.
C18_Witness ==
    /\ SimilarReturned
    /\ Len(groups) >= 1
    /\ \E k \in 1..Len(file_infos) :
         \A g \in 1..Len(groups) : \A m \in 1..Len(groups[g].files) :
             groups[g].files[m].path # file_infos[k].path

\* C19 as stated: a file whose hash cannot be computed does not end the call:
\* the hashing loop goes on to the next file and the call never returns the
\* error in place of the groups.
C19_FailureStep ==
    (pc = "hash" /\ h <= Len(file_infos) /\ ~calculate_hash(file_infos[h], disk).ok) =>
        (pc' = "hash" /\ h' = h + 1)

C19_HashFailureDoesNotAbort == [](pc # "sim_err") /\ [][C19_FailureStep]_vars

\* What a path may hold when a file is read again.
DiskContents == {"c1", "c2", "c3", "c4", "unreadable"}

\* C20: a FileInfo that has a hash keeps it: calculate_hash on it succeeds
\* with the stored value and leaves the FileInfo as it is, whatever the file
\* now holds and even when it can no longer be read; every file the hashing
\* loop has passed has a hash; a failed calculate_hash leaves the hash absent.
C20_HashComputedOnce ==
    /\ pc \in {"hash", "sim_err", "sim_anchor", "sim_compare", "sim_done"} =>
         \A p \in 1..Len(file_infos) :
            /\ (p < h => file_infos[p].hash # "None")
            /\ file_infos[p].hash # "None" =>
                 \A c \in DiskContents :
                    LET again == calculate_hash(file_infos[p], [disk EXCEPT ![p] = c])
                    IN /\ again.ok
                       /\ again.value = file_infos[p].hash
                       /\ again.file = file_infos[p]
    /\ pc = "sim_err" =>
         /\ file_infos[h].hash = "None"
         /\ ~calculate_hash(file_infos[h], disk).ok
         /\ calculate_hash(file_infos[h], disk).file = file_infos[h]

\* The hashing loop stored the digest of a file it read, passed a file that
\* arrived with a hash and cannot be read, and then failed on a third file.
C20_Witness ==
    /\ pc = "sim_err"
    /\ \E p \in 1..(h - 1) : disk[p] # "unreadable" /\ file_infos[p].hash = Sha256Hex(disk[p])
    /\ \E p \in 1..(h - 1) : disk[p] = "unreadable" /\ file_infos[p].hash # "None"

(***************************************************************************)
(* Claims C21..C29.                                                        *)
(***************************************************************************)

\* The list handed to group_similar_files was two readable files that hold
\* the same bytes.
TwoFilesSameBytes ==
    /\ pc \in {"hash", "sim_err", "sim_anchor", "sim_compare", "sim_done"}
    /\ Len(file_infos) = 2
    /\ disk[1] # "unreadable"
    /\ disk[1] = disk[2]

\* C21: for two readable files with identical bytes, whatever their names,
\* group_similar_files returns exactly one group; the group holds both files,
\* in input order, its similarity_type is Identical and its similarity_score
\* is 1.0; and the call does return.
C21_IdenticalBytesOneGroup ==
    TwoFilesSameBytes =>
        /\ pc # "sim_err"
        /\ SimilarReturned =>
             /\ Len(groups) = 1
             /\ Len(groups[1].files) = 2
             /\ groups[1].files[1].path = 1
             /\ groups[1].files[2].path = 2
             /\ groups[1].similarity_type = "Identical"
             /\ groups[1].similarity_score = <<1, 1>>

\* The call returned for two files of equal bytes whose names have nothing in
\* common (name similarity 0).
C21_Witness ==
    /\ TwoFilesSameBytes
    /\ SimilarReturned
    /\ file_infos[1].name = Name1
    /\ file_infos[2].name = Name4

\* C22: while group_similar_files examines anchors and compares pairs, and
\* when it has returned its groups, the hashing loop has passed every file of
\* the batch and every file has its hash.
C22_HashesBeforeComparison ==
    InGroupSimilarFiles =>
        /\ h = Len(file_infos) + 1
        /\ \A p \in 1..Len(file_infos) : file_infos[p].hash # "None"

\* A pair is about to be compared, and the hash of the file compared last in
\* the batch was computed from the disk by the hashing loop.
C22_Witness ==
    /\ pc = "sim_compare"
    /\ i = 1
    /\ j = 2
    /\ Len(file_infos) = 3
    /\ disk[3] # "unreadable"
    /\ file_infos[3].hash = Sha256Hex(disk[3])

\* The connected components of the input under score >= threshold.
Components == {ConnectedFrom({a}) : a \in 1..Len(files)}

LargeComponents == {c \in Components : Cardinality(c) >= min_group_size}

\* The call on the same list in reverse order: every component is then entered
\* from the member that came last.
ReversedArgs ==
    LET n == Len(files) IN
    [Args EXCEPT !.files = [p \in 1..n |-> files[n + 1 - p]],
                 !.sim = [a \in 1..n |-> [b \in 1..n |-> sim[n + 1 - a][n + 1 - b]]]]

\* The groups of the reversed call, as sets of indices of the list as given.
GroupsOfReversedCall ==
    LET rev == EmittedGroups(ReversedArgs, 1, {}) IN
    {{Len(files) + 1 - rev[g][m] : m \in 1..Len(rev[g])} : g \in 1..Len(rev)}

\* The candidate group the code builds when a is the anchor and nothing is
\* processed yet.
CandidateFrom(a) ==
    LET s == SeedScan(Args, {}, a, a + 1, <<a>>, <<>>)
    IN SeqToSet(ExpandLoop(Args, {}, s.group, s.group, s.sims).group)

\* C26: with a symmetric score, the groups group_files returns are exactly
\* the connected components of the input under score >= threshold that have
\* at least min_group_size members, one group per component; the ungrouped
\* list is exactly the items of the smaller components, in input order; and
\* the groups are the same sets whichever member of a component is the
\* anchor: any member of a group taken as anchor gathers the whole group, and
\* the call on the reversed list returns the same sets.
C26_GroupsAreComponents ==
    (Returned /\ SymmetricScore) =>
        LET large == LargeComponents IN
        /\ {SeqToSet(built[g].members) : g \in 1..Len(built)} = large
        /\ Len(built) = Cardinality(large)
        /\ Len(groups) = Len(built)
        /\ \A g \in 1..Len(groups) : groups[g].files = NamesAt(MembersOf(groups[g]))
        /\ ungrouped = NamesAt(Ascending((1..Len(files)) \ UNION large))
        /\ \A g \in 1..Len(built) : \A a \in SeqToSet(built[g].members) :
              CandidateFrom(a) = SeqToSet(built[g].members)
        /\ GroupsOfReversedCall = large

\* The call returned a group of three or more that is a component whose first
\* member is not joined to every other member directly, next to a smaller
\* component that stayed ungrouped.
C26_Witness ==
    /\ Returned
    /\ SymmetricScore
    /\ Len(ungrouped) >= 1
    /\ \E g \in 1..Len(built) :
         /\ Len(built[g].members) >= 3
         /\ \E m \in SeqToSet(built[g].members) :
              /\ m # built[g].anchor
              /\ sim[built[g].anchor][m][1] * 100 < threshold * sim[built[g].anchor][m][2]

\* Member q of the list scores at or above the threshold with index k.
Pulls(memberq, k) == sim[memberq][k][1] * 100 >= threshold * sim[memberq][k][2]

\* The position in the member list of the first member that pulls k.
FirstPuller(members, k) ==
    CHOOSE q \in 1..Len(members) :
        /\ Pulls(members[q], k)
        /\ \A r \in 1..(q - 1) : ~Pulls(members[r], k)

\* C27: every emitted group records exactly one score per member other than
\* the anchor, which is the first member: the p-th score belongs to member
\* p + 1 and is the score of that member against the first member of the list
\* that scores at or above the threshold with it, a member that stands before
\* it; and when min_group_size >= 2 the score list of an emitted group is not
\* empty, so its similarity is the mean of the list and not the 1.0 fallback.
C27_OneScorePerPulledMember ==
    InGroupFiles => \A g \in 1..Len(built) :
        LET b == built[g] IN
        /\ b.members[1] = b.anchor
        /\ Len(b.scores) = Len(b.members) - 1
        /\ \A p \in 1..Len(b.scores) :
             LET k == b.members[p + 1]
                 q == FirstPuller(b.members, k)
             IN /\ \E r \in 1..p : Pulls(b.members[r], k)
                /\ q <= p
                /\ b.scores[p] = sim[b.members[q]][k]
        /\ min_group_size >= 2 =>
             /\ b.scores # <<>>
             /\ \E gr \in 1..Len(groups) :
                  /\ groups[gr].id = g
                  /\ groups[gr].similarity = FracDivInt(FracSum(b.scores), Len(b.scores))

\* A group of three was emitted in which the last member scores at or above
\* the threshold with both earlier members, with different scores: the score
\* recorded is the one against the anchor, and the pair of the last two
\* members is in no recorded score.
C27_Witness ==
    /\ InGroupFiles
    /\ min_group_size >= 2
    /\ \E g \in 1..Len(built) :
         LET b == built[g] IN
         /\ Len(b.members) = 3
         /\ Pulls(b.members[1], b.members[3])
         /\ Pulls(b.members[2], b.members[3])
         /\ sim[b.members[1]][b.members[3]] # sim[b.members[2]][b.members[3]]
         /\ b.scores[2] = sim[b.members[1]][b.members[3]]

\* The positions in a returned group of the members that no hash equality
\* with the anchor absorbed.
NonHashMembers(g) == {m \in 2..Len(g.files) : ~HashRule(g.files[1], g.files[m])}

\* The largest element of a non-empty set of positions.
LastOf(S) == CHOOSE m \in S : \A o \in S : o <= m

\* C28: a returned group is Identical exactly when every absorbed member has
\* the anchor's hash, and its score is then 1.0; otherwise its type is the
\* tier of the last member absorbed by a non-hash rule: Content when that
\* member has the anchor's size and a name similarity above 0.8, Name when not,
\* whatever tier the matches before it had.
C28_TypeOfLastNonHashMatch ==
    SimilarReturned => \A g \in 1..Len(groups) :
        LET grp == groups[g]
            nonhash == NonHashMembers(grp)
        IN /\ (grp.similarity_type = "Identical") <=> (nonhash = {})
           /\ nonhash = {} => grp.similarity_score = <<1, 1>>
           /\ nonhash # {} =>
                LET last == grp.files[LastOf(nonhash)] IN
                grp.similarity_type =
                    IF ContentRule(grp.files[1], last) THEN "Content" ELSE "Name"

\* A returned group whose first absorbed member came in by the content rule
\* and whose last by the name rule: the group is Name.
C28_Witness ==
    /\ SimilarReturned
    /\ \E g \in 1..Len(groups) :
         /\ Len(groups[g].files) = 3
         /\ ~HashRule(groups[g].files[1], groups[g].files[2])
         /\ ContentRule(groups[g].files[1], groups[g].files[2])
         /\ ~HashRule(groups[g].files[1], groups[g].files[3])
         /\ ~ContentRule(groups[g].files[1], groups[g].files[3])
         /\ groups[g].similarity_type = "Name"

\* The places <<group, member>> of the returned groups.  A FileInfo keeps the
\* path it came with, and the path of the p-th input file is p.
GroupPositions ==
    UNION {{<<g, m>> : m \in 1..Len(groups[g].files)} : g \in 1..Len(groups)}

PathAt(gm) == groups[gm[1]].files[gm[2]].path

\* The input files that some returned group with an anchor before k holds.
AbsorbedBefore(k) ==
    {PathAt(gm) : gm \in {q \in GroupPositions : groups[q[1]].files[1].path < k}}

\* C29: in the result of group_similar_files no input file appears twice,
\* neither in two groups nor twice in one; the first file of a group has a
\* lower input index than every other member, and every other member
\* satisfies a tier rule with it; a file that is in no group satisfies no tier
\* rule with any later file that no earlier anchor had absorbed.
C29_DisjointAnchoredGroups ==
    SimilarReturned =>
        /\ \A p, q \in GroupPositions : PathAt(p) = PathAt(q) => p = q
        /\ \A g \in 1..Len(groups) : \A m \in 2..Len(groups[g].files) :
              /\ groups[g].files[1].path < groups[g].files[m].path
              /\ SomeRule(groups[g].files[1], groups[g].files[m])
        /\ \A gm \in GroupPositions : groups[gm[1]].files[gm[2]] = file_infos[PathAt(gm)]
        /\ \A k \in 1..Len(file_infos) :
              k \notin {PathAt(gm) : gm \in GroupPositions} =>
                 /\ k \in processed_files
                 /\ \A l \in (k + 1)..Len(file_infos) :
                       l \notin AbsorbedBefore(k) => ~SomeRule(file_infos[k], file_infos[l])

\* The call returned a group and left a file in no group, although a later
\* file satisfies a tier rule with it: an earlier anchor had absorbed that
\* file.
C29_Witness ==
    /\ SimilarReturned
    /\ Len(groups) = 1
    /\ \E k \in 1..Len(file_infos) :
         /\ k \notin {PathAt(gm) : gm \in GroupPositions}
         /\ \E l \in (k + 1)..Len(file_infos) :
              /\ l \in AbsorbedBefore(k)
              /\ SomeRule(file_infos[k], file_infos[l])

(***************************************************************************)
(* Properties of calculate_similarity.                                     *)
(***************************************************************************)
SimilarityReturned == pc = "calc_done"

\* 1.0 and 0.0 as f64: the mantissa 2^52 with exponent -52, and zero.
ExactlyOne == [m |-> <<0, 0, 0, 128>>, e |-> -52]

ExactlyZero == [m |-> <<>>, e |-> 0]

\* C23: calculate_similarity is symmetric: for the strings, the algorithm and
\* the flag of the call that returned, the call with the two strings exchanged
\* returns the same f64.
C23_Symmetric ==
    SimilarityReturned =>
        score = calculate_similarity_f64(s2, s1, algorithm, case_sensitive)

\* An Auto call returned a score strictly between 0.0 and 1.0 for two names
\* of different lengths, one of them with a delimiter.
C23_Witness ==
    /\ SimilarityReturned
    /\ algorithm = "Auto"
    /\ Len(s1) < Len(s2)
    /\ \E p \in 1..Len(s2) : s2[p] = "_"
    /\ score # ExactlyZero
    /\ score # ExactlyOne

\* A Jaro call returned for two names that hold the same letters in another
\* order: neither 0.0 nor 1.0.
JaroOfTransposedNames ==
    /\ SimilarityReturned
    /\ algorithm = "Jaro"
    /\ s1 = <<"a", "b", "c", "d", "e", "f">>
    /\ s2 = <<"a", "b", "d", "c", "f", "e">>
    /\ score # ExactlyZero
    /\ score # ExactlyOne

\* C24 as stated: calculate_similarity(a, a) is exactly 1.0 for every
\* non-empty string a, every algorithm and either value of case_sensitive.
C24_SelfSimilarityIsOne ==
    (SimilarityReturned /\ s1 = s2 /\ s1 # <<>>) => score = ExactlyOne

\* A string of letters and digits only, not empty.
AlphanumericOnly(s) == s # <<>> /\ \A p \in 1..Len(s) : s[p] \notin {"_", ".", "-", " "}

\* C25: for every algorithm, calculate_similarity of two empty strings is 1.0,
\* and of a non-empty alphanumeric string and the empty string it is 0.0, in
\* either order of the arguments.
C25_EmptyStrings ==
    SimilarityReturned =>
        /\ (s1 = <<>> /\ s2 = <<>>) => score = ExactlyOne
        /\ (AlphanumericOnly(s1) /\ s2 = <<>>) => score = ExactlyZero
        /\ (s1 = <<>> /\ AlphanumericOnly(s2)) => score = ExactlyZero

\* The Auto call on "" and "x" returned.
C25_Witness ==
    /\ SimilarityReturned
    /\ algorithm = "Auto"
    /\ s1 = <<>>
    /\ s2 = <<"x">>
    /\ score = ExactlyZero

\* The Token call on two empty strings returned.
BothEmptyUnderToken ==
    /\ SimilarityReturned
    /\ algorithm = "Token"
    /\ s1 = <<>>
    /\ s2 = <<>>
    /\ score = ExactlyOne

\* What does hold of calculate_similarity(a, a): it is exactly 1.0 unless the
\* algorithm is Auto and a holds an underscore, a hyphen or a space, and in
\* that case it is the f64 just below 1.0.
SelfSimilarityExceptDelimitedAuto ==
    (SimilarityReturned /\ s1 = s2 /\ s1 # <<>>) =>
        IF algorithm = "Auto" /\ \E p \in 1..Len(s1) : s1[p] \in {"_", "-", " "}
        THEN score = [m |-> <<32767, 32767, 32767, 255>>, e |-> -53]
        ELSE score = ExactlyOne

\* The exact quotients group_files is modelled with decide similarity >=
\* threshold_f64 as the f64 values do, for the thresholds of the model and of
\* the tests of grouper.rs.
QuotientFormAgreesAtThresholds ==
    (SimilarityReturned /\ algorithm \in Algorithms) =>
        \A t \in Thresholds \cup {70} :
            FracGE(calculate_similarity(s1, s2, algorithm, case_sensitive), <<t, 100>>)
                <=> ~F64GT(F64Div(t, 100), score)

====
